---- MODULE Spec2Model ----
\* Session store, processing route and processing pipeline of the
\* thoughts-reframed backend (src/src/services/sessionService.js,
\* src/src/routes/sessions.js, src/src/services/processingService.js and the
\* speech-to-text / reframing / text-to-speech services).
\*
\* Scheduling.  The server is one Node.js process.  getSession and
\* updateSession only make synchronous fs calls, so every `await` on them
\* resumes in a microtask, and Node drains the microtask queue before it runs
\* the next I/O or timer callback.  A request handler or a pipeline run is
\* therefore atomic between two real suspension points: the HTTP calls to the
\* transcription, reframing and synthesis services and the backoff timers of
\* the transcription retry loop.  One action of this model is one such atomic
\* stretch; the order of the store writes and adapter calls inside a stretch is
\* kept in the run's log.
EXTENDS Integers, Sequences, FiniteSets, TLC

VARIABLES
    env,        \* process.env as read at module load
    sessions,   \* the session files: sessions[id] is the record of session id
    userVoice,  \* voiceId of each user record (null until a voice is cloned)
    jobs,       \* the pipeline runs started by POST /sessions/:id/process
    now,        \* Date.now()
    lockouts,   \* the lockout files: lockouts[e] is the record of email e
    users,      \* the user files: users[id] is the record of user id
    emailIndex, \* email_index.json: the user id of each registered email
    requests    \* the signup and login requests, with their answers

\* The files and requests of the auth routes; the session routes and the
\* pipeline do not touch them.
accounts == <<lockouts, users, emailIndex, requests>>

vars == <<env, sessions, userVoice, jobs, now, accounts>>

\* No account exists and no auth request has been made.
NoAccounts ==
    /\ lockouts = <<>>
    /\ users = <<>>
    /\ emailIndex = <<>>
    /\ requests = <<>>

\* ---------------------------------------------------------------- bounds
\* MaxRuns: the pipeline runs that can be pending at the same time.
\* MaxFiles: the uploads one session accepts.
MaxRuns == 1
MaxFiles == 2

\* Spec follows one session.  Owner creates it; Users holds the owner and a
\* second authenticated user, who can send every request for the session.
\* SessionIds are the ids requests name; an id is unknown until POST /sessions
\* has returned it.
Owner == "u1"
Users == {Owner, "u2"}
SessionIds == {1}

\* ---------------------------------------------------------------- values
NULL == "null"
Undefined == -1

\* What the transcription service can answer on success, and what the
\* reframing model's trimmed answer can be.
TranscriberTexts == {"", "hello"}
ReframerTexts == {"", "HELLO"}


Last(seq) == seq[Len(seq)]

Front(s) == SubSeq(s, 1, Len(s) - 1)

\* ------------------------------------------------------- session store
\* createSession: the record written for a new session.  updatedAt is not
\* set by createSession; Undefined stands for the missing field.
createSession(id, userId) ==
    [id |-> id, userId |-> userId, createdAt |-> now, status |-> "created",
     audioFiles |-> <<>>, transcript |-> NULL, reframedText |-> NULL,
     generatedAudioUrl |-> NULL, error |-> NULL, updatedAt |-> Undefined]

sessionExists(store, id) == id \in DOMAIN store

\* getSession: the stored record (callers test sessionExists for the null result).
getSession(store, id) == store[id]

\* mergeUpdates that spreads the updates over a blank record, not the stored one.
mergeUpdatesOverBlank(session, updates) ==
    [f \in DOMAIN session \cup DOMAIN updates \cup {"updatedAt"} |->
        IF f = "updatedAt" THEN now
        ELSE IF f \in DOMAIN updates THEN updates[f]
        ELSE createSession(0, NULL)[f]]

\* {...session, ...updates, updatedAt: new Date()}
mergeUpdates(session, updates) ==
    [f \in DOMAIN session \cup DOMAIN updates \cup {"updatedAt"} |->
        IF f = "updatedAt" THEN now
        ELSE IF f \in DOMAIN updates THEN updates[f]
        ELSE session[f]]

\* updateSession whose path does not depend on the id: every session file
\* gets the updates.
updateSessionEveryFile(store, id, updates) ==
    [k \in DOMAIN store |-> mergeUpdates(store[k], updates)]

\* updateSession on an existing session: read, merge, write the whole record.
updateSession(store, id, updates) ==
    [store EXCEPT ![id] = mergeUpdates(getSession(store, id), updates)]

\* updateSession that writes the record also when the session does not exist.
updateSessionCallUpserts(store, id, updates) ==
    LET written == [f \in DOMAIN updates \cup {"updatedAt"} |->
                       IF f = "updatedAt" THEN now ELSE updates[f]]
    IN  IF sessionExists(store, id)
        THEN [threw |-> NULL, returned |-> mergeUpdates(store[id], updates),
              store |-> updateSession(store, id, updates)]
        ELSE [threw |-> NULL, returned |-> written,
              store |-> [k \in DOMAIN store \cup {id} |->
                            IF k = id THEN written ELSE store[k]]]

\* A call of updateSession: what it throws, what it returns and the store after.
updateSessionCall(store, id, updates) ==
    IF sessionExists(store, id)
    THEN [threw |-> NULL, returned |-> mergeUpdates(getSession(store, id), updates),
          store |-> updateSession(store, id, updates)]
    ELSE [threw |-> "Session not found", returned |-> NULL, store |-> store]

\* The session files in the order readdirSync lists them (by name, i.e. id).
RECURSIVE readdir(_)
readdir(ids) ==
    IF ids = {} THEN <<>>
    ELSE LET first == CHOOSE i \in ids : \A k \in ids : i <= k
         IN  <<first>> \o readdir(ids \ {first})

\* getUserSessions without the sort: the user's sessions in directory order.
getUserSessionsUnsorted(store, userId) ==
    LET files == readdir(DOMAIN store)
    IN  SelectSeq([i \in DOMAIN files |-> store[files[i]]],
                  LAMBDA session : session.userId = userId)

\* Array.prototype.sort with (a, b) => new Date(b.createdAt) - new Date(a.createdAt):
\* a stable sort, newest first.  InsertByCreatedAt puts session behind every
\* element that is not older than it.
InsertByCreatedAt(sorted, session) ==
    LET keep == {i \in 0..Len(sorted) :
                    \A k \in 1..i : sorted[k].createdAt >= session.createdAt}
        at == CHOOSE i \in keep : \A k \in keep : k <= i
    IN  SubSeq(sorted, 1, at) \o <<session>> \o SubSeq(sorted, at + 1, Len(sorted))

RECURSIVE sortNewestFirst(_)
sortNewestFirst(list) ==
    IF list = <<>> THEN <<>>
    ELSE InsertByCreatedAt(sortNewestFirst(Front(list)), Last(list))

getUserSessions(store, userId) ==
    LET files == readdir(DOMAIN store)
        mine == SelectSeq([i \in DOMAIN files |-> store[files[i]]],
                          LAMBDA session : session.userId = userId)
    IN  sortNewestFirst(mine)

\* ------------------------------------------------------------ run log
\* The store writes and adapter calls of one run, in program order.
UpdateEv(by, updates) == [ev |-> "update", by |-> by, updates |-> updates]
CallEv(adapter, arg) == [ev |-> "call", adapter |-> adapter, arg |-> arg]
ReturnEv(adapter, value) == [ev |-> "return", adapter |-> adapter, value |-> value]
ThrowEv(adapter, message) == [ev |-> "throw", adapter |-> adapter, message |-> message]
RespondEv(code, status) == [ev |-> "respond", code |-> code, status |-> status]

\* A context is the store together with the record of the run being executed.
Ctx(store, job) == [store |-> store, job |-> job]

Logged(c, e) == [c EXCEPT !.job.log = Append(@, e)]

\* `await updateSession(sessionId, updates)` made by `by`.
Write(c, by, updates) ==
    Logged([c EXCEPT !.store = updateSession(c.store, c.job.sid, updates)],
           UpdateEv(by, updates))


\* ------------------------------------------------------------ mutations
\* Each operator below is a faulty variant of the operator of the pipeline it
\* is named after; a property that depends on the original fails with it.

\* PipelineCatch that also resets the results of the session.
PipelineCatchClearsResults(c, message) ==
    LET c1 == Write(c, "pipeline", [status |-> "error", error |-> message,
                                    transcript |-> NULL, reframedText |-> NULL])
    IN  [c1 EXCEPT !.job.pc = "failed", !.job.error = message,
                   !.job.attempt = 0, !.job.waits = <<>>]

\* --------------------------------------------------- pipeline: failure
\* The catch block of processAudioPipeline (status error with the message,
\* then rethrow), followed by the .catch handler the process route attached to
\* the run, which stores the same update once more.
PipelineCatch(c, message) ==
    LET c1 == Write(c, "pipeline", [status |-> "error", error |-> message])
        c2 == Write(c1, "route", [status |-> "error", error |-> message])
    IN  [c2 EXCEPT !.job.pc = "failed", !.job.error = message,
                   !.job.attempt = 0, !.job.waits = <<>>]

\* ---------------------------------------------- pipeline: text-to-speech
\* Completed that resets error when the synthesis succeeded.
CompletedClearsError(c, generatedAudioUrl) ==
    LET updates == IF generatedAudioUrl = NULL
                   THEN [generatedAudioUrl |-> generatedAudioUrl, status |-> "completed"]
                   ELSE [generatedAudioUrl |-> generatedAudioUrl, status |-> "completed",
                         error |-> NULL]
        c1 == Write(c, "pipeline", updates)
    IN  [c1 EXCEPT !.job.pc = "done", !.job.generatedAudioUrl = generatedAudioUrl]

\* Mark as completed even if TTS failed.
Completed(c, generatedAudioUrl) ==
    LET c1 == Write(c, "pipeline",
                    [generatedAudioUrl |-> generatedAudioUrl, status |-> "completed"])
    IN  [c1 EXCEPT !.job.pc = "done", !.job.generatedAudioUrl = generatedAudioUrl]

TtsUnavailable(message) ==
    "TTS unavailable: " \o message \o ". Transcript and reframe are ready."

\* TtsFailed without the inner try: the synthesis error reaches the outer catch.
TtsFailedRethrows(c, message) ==
    PipelineCatch(Logged(c, ThrowEv("generateAudio", message)), message)

\* catch (ttsError): store the note in error, do not rethrow, then complete.
TtsFailed(c, message) ==
    LET c1 == Logged(c, ThrowEv("generateAudio", message))
        c2 == Write(c1, "pipeline", [error |-> TtsUnavailable(message)])
    IN  Completed(c2, NULL)

AudioFilename(sessionId) ==
    "reframed_" \o ToString(sessionId) \o "_" \o ToString(now) \o ".mp3"

\* TtsSucceeded that stores the returned file name itself as generatedAudioUrl.
TtsSucceededStoresName(c, audioFilename) ==
    Completed(Logged(c, ReturnEv("generateAudio", audioFilename)), audioFilename)

\* generateAudio returned: generatedAudioUrl = `/uploads/${audioFilename}`.
TtsSucceeded(c, audioFilename) ==
    Completed(Logged(c, ReturnEv("generateAudio", audioFilename)),
              "/uploads/" \o audioFilename)

\* VoiceIdToUse that keeps ELEVENLABS_VOICE_ID whenever it is configured.
VoiceIdToUseDefaultFirst(userId) ==
    IF env.ELEVENLABS_VOICE_ID THEN "default-voice"
    ELSE IF userId \in DOMAIN userVoice /\ userVoice[userId] # NULL
    THEN userVoice[userId]
    ELSE NULL

\* The voice generateAudio uses: the user's voiceId if the user record has
\* one, else ELEVENLABS_VOICE_ID (NULL when neither exists).
VoiceIdToUse(userId) ==
    IF userId \in DOMAIN userVoice /\ userVoice[userId] # NULL
    THEN userVoice[userId]
    ELSE IF env.ELEVENLABS_VOICE_ID THEN "default-voice" ELSE NULL

\* generateAudio up to its HTTP call.
generateAudio(c, text, userId) ==
    LET c1 == Logged(c, CallEv("generateAudio", <<text, userId>>)) IN
    IF ~ env.ELEVENLABS_API_KEY
    THEN TtsFailed(c1, "ElevenLabs API key not configured")
    ELSE IF VoiceIdToUse(userId) = NULL
    THEN TtsFailed(c1, "ElevenLabs Voice ID not configured. Please enroll a voice first or clone your voice.")
    ELSE [c1 EXCEPT !.job.pc = "tts_call", !.job.voice = VoiceIdToUse(userId)]

\* -------------------------------------------------- pipeline: reframing
\* reframeText returned: store the text, then start the optional TTS step.
AfterReframing(c, reframedText) ==
    LET c1 == Logged(c, ReturnEv("reframeText", reframedText))
        c2 == Write(c1, "pipeline",
                    [reframedText |-> reframedText, status |-> "reframed"])
        c3 == [c2 EXCEPT !.job.reframedText = reframedText]
        c4 == Write(c3, "pipeline", [status |-> "generating_audio"])
    IN  generateAudio(c4, reframedText, c4.job.userId)

\* ReframingFailed that sends the reframing request a second time before it
\* gives up.
ReframingFailedRetries(c, message) ==
    LET c1 == Logged(c, ThrowEv("reframeText", message))
        calls == {i \in DOMAIN c.job.log :
                     c.job.log[i].ev = "call" /\ c.job.log[i].adapter = "reframeText"}
    IN  IF Cardinality(calls) < 2
        THEN [Logged(c1, CallEv("reframeText", c.job.transcript))
                 EXCEPT !.job.pc = "reframe_call"]
        ELSE PipelineCatch(c1, message)

ReframingFailed(c, message) ==
    PipelineCatch(Logged(c, ThrowEv("reframeText", message)), message)

\* reframeText up to its API call: the provider chosen by
\* USE_ANTHROPIC_FOR_REFRAMING, whose client exists only if its key was set.
reframeText(c, transcript) ==
    LET c1 == Logged(c, CallEv("reframeText", transcript)) IN
    IF env.USE_ANTHROPIC_FOR_REFRAMING /\ ~ env.ANTHROPIC_API_KEY
    THEN ReframingFailed(c1, "Anthropic API key not configured")
    ELSE IF ~ env.USE_ANTHROPIC_FOR_REFRAMING /\ ~ env.OPENAI_API_KEY
    THEN ReframingFailed(c1, "OpenAI API key not configured")
    ELSE [c1 EXCEPT !.job.pc = "reframe_call"]

\* AfterTranscription that calls the reframer without storing reframing first.
AfterTranscriptionSkipsStatus(c, transcript) ==
    LET c1 == Logged(c, ReturnEv("transcribeAudio", transcript))
        c2 == Write(c1, "pipeline",
                    [transcript |-> transcript, status |-> "transcribed"])
        c3 == [c2 EXCEPT !.job.transcript = transcript,
                         !.job.attempt = 0, !.job.waits = <<>>]
    IN  reframeText(c3, transcript)

\* TranscriptionFailed that swallows the error and goes on to reframing.
TranscriptionFailedContinues(c, message) ==
    reframeText(Logged(c, ThrowEv("transcribeAudio", message)), "")

\* ---------------------------------------------- pipeline: transcription
\* AfterTranscription that announces the transcript without storing it.
AfterTranscriptionStatusOnly(c, transcript) ==
    LET c1 == Logged(c, ReturnEv("transcribeAudio", transcript))
        c2 == Write(c1, "pipeline", [status |-> "transcribed"])
        c3 == [c2 EXCEPT !.job.transcript = transcript,
                         !.job.attempt = 0, !.job.waits = <<>>]
        c4 == Write(c3, "pipeline", [status |-> "reframing"])
    IN  reframeText(c4, transcript)

\* transcribeAudio returned: store the transcript, then start reframing.
AfterTranscription(c, transcript) ==
    LET c1 == Logged(c, ReturnEv("transcribeAudio", transcript))
        c2 == Write(c1, "pipeline",
                    [transcript |-> transcript, status |-> "transcribed"])
        c3 == [c2 EXCEPT !.job.transcript = transcript,
                         !.job.attempt = 0, !.job.waits = <<>>]
        c4 == Write(c3, "pipeline", [status |-> "reframing"])
    IN  reframeText(c4, transcript)

TranscriptionFailed(c, message) ==
    PipelineCatch(Logged(c, ThrowEv("transcribeAudio", message)), message)


\* ------------------------------------------- transcribeWithWhisper retry
\* One attempt more than transcribeWithWhisper allows.
maxRetriesOneMore == 3 + 1

maxRetries == 3

\* The errors one transcription request can end with: the HTTP status, the
\* error code and the message of the axios error.
WhisperErrors ==
    { [status |-> 429, code |-> "ERR_BAD_REQUEST",
       message |-> "Request failed with status code 429"],
      [status |-> 0, code |-> "ECONNRESET", message |-> "socket hang up"],
      [status |-> 0, code |-> "ECONNABORTED",
       message |-> "timeout of 300000ms exceeded"],
      [status |-> 400, code |-> "ERR_BAD_REQUEST",
       message |-> "Request failed with status code 400"] }

\* errorMessage.includes(word), for the messages of WhisperErrors.
MessageIncludes(message, word) ==
    \/ message = "socket hang up" /\ word = "socket hang up"
    \/ message = "timeout of 300000ms exceeded" /\ word = "timeout"

isRateLimit(error) == error.status = 429

\* isConnectionError that takes every error for a connection error.
isConnectionErrorAlways(error) == error.status >= 0

isConnectionError(error) ==
    \/ error.code = "ECONNRESET"
    \/ error.code = "ETIMEDOUT"
    \/ MessageIncludes(error.message, "Connection")
    \/ MessageIncludes(error.message, "socket hang up")
    \/ MessageIncludes(error.message, "timeout")

Min(a, b) == IF a < b THEN a ELSE b

\* RateLimitWait with the backoff of connection errors.
RateLimitWaitShort(attempt) == attempt * 3000

RateLimitWait(attempt) == Min(attempt * 10000, 60000)
ConnectionWait(attempt) == attempt * 3000

\* Backoff that stores transcribing again before each retry.
BackoffRewritesStatus(c, waitTime) ==
    LET c1 == Write(c, "pipeline", [status |-> "transcribing"])
    IN  [c1 EXCEPT !.job.pc = "stt_wait", !.job.waits = Append(@, waitTime)]

\* Backoff that notes the absorbed failure in the session record.
BackoffRecordsError(c, waitTime) ==
    LET c1 == Write(c, "pipeline", [error |-> "Transcription failed, retrying"])
    IN  [c1 EXCEPT !.job.pc = "stt_wait", !.job.waits = Append(@, waitTime)]

\* Backoff whose timer is never set: the promise the run awaits never settles.
BackoffNeverResolves(c, waitTime) ==
    [c EXCEPT !.job.pc = "stt_hung", !.job.waits = Append(@, waitTime)]

Backoff(c, waitTime) ==
    [c EXCEPT !.job.pc = "stt_wait", !.job.waits = Append(@, waitTime)]

\* The catch block of one attempt of transcribeWithWhisper.
WhisperAttemptFailed(c, error) ==
    LET attempt == c.job.attempt IN
    IF attempt < maxRetries /\ isRateLimit(error)
    THEN Backoff(c, RateLimitWait(attempt))
    ELSE IF attempt < maxRetries /\ isConnectionError(error)
    THEN Backoff(c, ConnectionWait(attempt))
    ELSE IF attempt = maxRetries
    THEN IF isRateLimit(error)
         THEN TranscriptionFailed(c,
                "Transcription failed: Rate limit exceeded. Please try again in a few minutes.")
         ELSE TranscriptionFailed(c,
                "Transcription failed after " \o ToString(maxRetries)
                    \o " attempts: " \o error.message)
    ELSE TranscriptionFailed(c, "Transcription failed: " \o error.message)

\* transcribeAudio up to the first request of transcribeWithWhisper.
transcribeAudio(c, audioPath) ==
    LET c1 == Logged(c, CallEv("transcribeAudio", audioPath)) IN
    IF env.USE_GOOGLE_STT
    THEN IF ~ env.GOOGLE_APPLICATION_CREDENTIALS
         THEN TranscriptionFailed(c1,
                "Google Cloud credentials not configured. Set GOOGLE_APPLICATION_CREDENTIALS environment variable.")
         ELSE TranscriptionFailed(c1,
                "Google Cloud Speech-to-Text not yet implemented. Please use OpenAI Whisper by setting USE_GOOGLE_STT=false")
    ELSE IF ~ env.OPENAI_API_KEY
    THEN TranscriptionFailed(c1, "OpenAI API key not configured")
    ELSE [c1 EXCEPT !.job.pc = "stt_call", !.job.attempt = 1]

\* ------------------------------------------------ processAudioPipeline
\* processAudioPipeline that transcribes the first file of the session.
processAudioPipelineFirstFile(c, found, session) ==
    IF ~ found \/ Len(session.audioFiles) = 0
    THEN PipelineCatch(c, "Session or audio files not found")
    ELSE LET audioFile == session.audioFiles[1]
             c1 == [c EXCEPT !.job.audioPath = audioFile.path,
                             !.job.userId = session.userId]
             c2 == Write(c1, "pipeline", [status |-> "transcribing"])
         IN  transcribeAudio(c2, audioFile.path)

\* The run from its start to the first transcription request.  `found` and
\* `session` are the result of the getSession at the top of the function.
processAudioPipeline(c, found, session) ==
    IF ~ found \/ Len(session.audioFiles) = 0
    THEN PipelineCatch(c, "Session or audio files not found")
    ELSE LET audioFile == session.audioFiles[Len(session.audioFiles)]
             c1 == [c EXCEPT !.job.audioPath = audioFile.path,
                             !.job.userId = session.userId]
             c2 == Write(c1, "pipeline", [status |-> "transcribing"])
         IN  transcribeAudio(c2, audioFile.path)


\* --------------------------------------------------------------- routes
\* OwnerCheck that does not compare the session's userId with the caller.
OwnerCheckSkipsOwner(store, sessionId, userId) ==
    IF ~ sessionExists(store, sessionId) THEN 404 ELSE 200

\* The status a session route answers before it acts: 404 for an unknown
\* session, 403 for a session of another user, else 200.
OwnerCheck(store, sessionId, userId) ==
    IF ~ sessionExists(store, sessionId) THEN 404
    ELSE IF getSession(store, sessionId).userId # userId THEN 403
    ELSE 200

\* ProcessCheck without the test for uploaded audio.
ProcessCheckSkipsAudio(store, sessionId, userId) ==
    OwnerCheck(store, sessionId, userId)

\* ProcessCheck that answers 409 while a run of the session is pending.
ProcessCheckRejectsBusy(store, sessionId, userId) ==
    IF OwnerCheck(store, sessionId, userId) # 200
    THEN OwnerCheck(store, sessionId, userId)
    ELSE IF Len(getSession(store, sessionId).audioFiles) = 0 THEN 400
    ELSE IF \E j \in DOMAIN jobs :
                jobs[j].sid = sessionId /\ jobs[j].pc \notin {"done", "failed"}
    THEN 409
    ELSE 200

\* POST /sessions/:id/process up to the update to processing.
ProcessCheck(store, sessionId, userId) ==
    IF OwnerCheck(store, sessionId, userId) # 200
    THEN OwnerCheck(store, sessionId, userId)
    ELSE IF Len(getSession(store, sessionId).audioFiles) = 0 THEN 400
    ELSE 200

\* GET /sessions/:id: the status code and the body (the record, or no field).
GetSessionResponse(store, sessionId, userId) ==
    IF OwnerCheck(store, sessionId, userId) = 200
    THEN [code |-> 200, body |-> getSession(store, sessionId)]
    ELSE [code |-> OwnerCheck(store, sessionId, userId), body |-> NULL]

\* GET /sessions: the sessions of the caller.
GetSessionsResponse(store, userId) ==
    [code |-> 200, body |-> getUserSessions(store, userId)]

\* POST /sessions/:id/upload up to the update: 400 for a request without a
\* file (tested before the session is read), else the owner check.
UploadCheck(store, sessionId, userId, hasFile) ==
    IF ~ hasFile THEN 400 ELSE OwnerCheck(store, sessionId, userId)

\* multer names an uploaded file audio_<Date.now()><ext>: the files of one
\* session are named in upload order.  n is how many files the session has.
UploadFilename(n) == "audio_" \o ToString(n + 1) \o ".m4a"

\* The descriptor pushed for an uploaded file (multer's req.file).
AudioFile(sessionId, filename) ==
    [filename |-> filename,
     path |-> "uploads/" \o ToString(sessionId) \o "/" \o filename,
     uploadedAt |-> now]

NewJob(sessionId) ==
    [sid |-> sessionId, pc |-> "start", audioPath |-> NULL, userId |-> NULL,
     attempt |-> 0, waits |-> <<>>, transcript |-> NULL, reframedText |-> NULL,
     generatedAudioUrl |-> NULL, voice |-> NULL, error |-> NULL, log |-> <<>>]

Max(a, b) == IF a > b THEN a ELSE b

Finished(job) == job.pc \in {"done", "failed"}

\* The model keeps the record of a run until a later run takes its place: at
\* most MaxRuns runs are pending at a time.  FreeSlot is where the next run is
\* recorded (0 when MaxRuns runs are pending).
FreeSlot ==
    IF \E k \in DOMAIN jobs : Finished(jobs[k])
    THEN CHOOSE k \in DOMAIN jobs :
            Finished(jobs[k]) /\ \A i \in DOMAIN jobs : Finished(jobs[i]) => k <= i
    ELSE IF Len(jobs) < MaxRuns THEN Len(jobs) + 1
    ELSE 0

\* -------------------------------------------------------------- actions
\* process.env as the service modules see it when they are loaded.  Every
\* branch on the environment is taken by one of these.
AllSet ==
    [USE_GOOGLE_STT |-> FALSE, GOOGLE_APPLICATION_CREDENTIALS |-> FALSE,
     OPENAI_API_KEY |-> TRUE, USE_ANTHROPIC_FOR_REFRAMING |-> FALSE,
     ANTHROPIC_API_KEY |-> FALSE, ELEVENLABS_API_KEY |-> TRUE,
     ELEVENLABS_VOICE_ID |-> TRUE]

Envs ==
    { AllSet,
      [AllSet EXCEPT !.ELEVENLABS_VOICE_ID = FALSE],
      [AllSet EXCEPT !.ELEVENLABS_API_KEY = FALSE],
      [AllSet EXCEPT !.USE_ANTHROPIC_FOR_REFRAMING = TRUE],
      [AllSet EXCEPT !.OPENAI_API_KEY = FALSE],
      [AllSet EXCEPT !.OPENAI_API_KEY = FALSE, !.USE_ANTHROPIC_FOR_REFRAMING = TRUE,
                     !.ANTHROPIC_API_KEY = TRUE],
      [AllSet EXCEPT !.USE_GOOGLE_STT = TRUE],
      [AllSet EXCEPT !.USE_GOOGLE_STT = TRUE, !.GOOGLE_APPLICATION_CREDENTIALS = TRUE] }

Init ==
    /\ env \in Envs
    /\ sessions = <<>>
    /\ userVoice = [u \in Users |-> NULL]
    /\ jobs = <<>>
    /\ now = 0
    /\ NoAccounts

\* POST /sessions
PostSessions(userId) ==
    /\ Len(sessions) + 1 \in SessionIds
    /\ sessions' = Append(sessions, createSession(Len(sessions) + 1, userId))
    /\ UNCHANGED <<env, userVoice, jobs, now, accounts>>

\* POST /sessions/:id/upload without a file, answered 400
PostUploadNoFile(sessionId, userId) ==
    /\ UploadCheck(sessions, sessionId, userId, FALSE) = 400
    /\ UNCHANGED vars

\* POST /sessions/:id/upload, answered 404 or 403
PostUploadRejected(sessionId, userId) ==
    /\ UploadCheck(sessions, sessionId, userId, TRUE) # 200
    /\ UNCHANGED vars

\* PostUpload that stores the new descriptor as the session's only file.
PostUploadReplaces(sessionId, userId) ==
    /\ UploadCheck(sessions, sessionId, userId, TRUE) = 200
    /\ Len(getSession(sessions, sessionId).audioFiles) < MaxFiles
    /\ LET session == getSession(sessions, sessionId)
           filename == UploadFilename(Len(session.audioFiles))
       IN  sessions' = updateSession(sessions, sessionId,
                           [audioFiles |-> <<AudioFile(sessionId, filename)>>,
                            status |-> "audio_uploaded"])
    /\ UNCHANGED <<env, userVoice, jobs, now, accounts>>

\* POST /sessions/:id/upload, accepted
PostUpload(sessionId, userId) ==
    /\ UploadCheck(sessions, sessionId, userId, TRUE) = 200
    /\ Len(getSession(sessions, sessionId).audioFiles) < MaxFiles
    /\ LET session == getSession(sessions, sessionId)
           filename == UploadFilename(Len(session.audioFiles))
           audioFiles == Append(session.audioFiles, AudioFile(sessionId, filename))
       IN  sessions' = updateSession(sessions, sessionId,
                           [audioFiles |-> audioFiles, status |-> "audio_uploaded"])
    /\ UNCHANGED <<env, userVoice, jobs, now, accounts>>

\* POST /sessions/:id/process, answered 404, 403 or 400
PostProcessRejected(sessionId, userId) ==
    /\ ProcessCheck(sessions, sessionId, userId) # 200
    /\ UNCHANGED vars

\* PostProcess that awaits the run's first stretch and reports its failure.
PostProcessAwaitsRun(sessionId, userId) ==
    /\ FreeSlot # 0
    /\ ProcessCheck(sessions, sessionId, userId) = 200
    /\ LET c0 == Write(Ctx(sessions, NewJob(sessionId)), "route",
                       [status |-> "processing"])
           c1 == Logged(c0, CallEv("processAudioPipeline", sessionId))
           c2 == processAudioPipeline(c1, sessionExists(c1.store, sessionId),
                                      getSession(c1.store, sessionId))
           c3 == Logged(c2, IF c2.job.pc = "failed"
                            THEN RespondEv(500, "error")
                            ELSE RespondEv(200, "processing"))
       IN  /\ sessions' = c3.store
           /\ jobs' = [k \in 1..Max(Len(jobs), FreeSlot) |->
                          IF k = FreeSlot THEN c3.job ELSE jobs[k]]
    /\ UNCHANGED <<env, userVoice, now, accounts>>

\* POST /sessions/:id/process, accepted: status processing is stored, the run
\* is started (it reads the session and suspends), the response is sent, and
\* the run goes on to its first transcription request.
AcceptedTrigger(store, sessionId) ==
    LET c0 == Write(Ctx(store, NewJob(sessionId)), "route",
                    [status |-> "processing"])
        c1 == Logged(c0, CallEv("processAudioPipeline", sessionId))
        found == sessionExists(c1.store, sessionId)
        session == getSession(c1.store, sessionId)
        c2 == Logged(c1, RespondEv(200, "processing"))
    IN  processAudioPipeline(c2, found, session)

PostProcess(sessionId, userId) ==
    /\ FreeSlot # 0
    /\ ProcessCheck(sessions, sessionId, userId) = 200
    /\ LET c3 == AcceptedTrigger(sessions, sessionId)
       IN  /\ sessions' = c3.store
           /\ jobs' = [k \in 1..Max(Len(jobs), FreeSlot) |->
                          IF k = FreeSlot THEN c3.job ELSE jobs[k]]
    /\ UNCHANGED <<env, userVoice, now, accounts>>

\* GET /sessions/:id
GetSessionRoute(sessionId, userId) ==
    /\ GetSessionResponse(sessions, sessionId, userId).code \in {200, 403, 404}
    /\ UNCHANGED vars

\* GET /sessions
GetSessionsRoute(userId) ==
    /\ GetSessionsResponse(sessions, userId).code = 200
    /\ UNCHANGED vars

Step(j, c) ==
    /\ sessions' = c.store
    /\ jobs' = [jobs EXCEPT ![j] = c.job]
    /\ UNCHANGED <<env, userVoice, now, accounts>>

\* A transcription request of run j returns the text.
WhisperSucceeds(j, transcription) ==
    /\ jobs[j].pc = "stt_call"
    /\ Step(j, AfterTranscription(Ctx(sessions, jobs[j]), transcription))

\* A transcription request of run j fails.
WhisperFails(j, error) ==
    /\ jobs[j].pc = "stt_call"
    /\ Step(j, WhisperAttemptFailed(Ctx(sessions, jobs[j]), error))

\* The backoff timer of run j fires: `continue` to the next attempt.
WhisperBackoffElapsed(j) ==
    /\ jobs[j].pc = "stt_wait"
    /\ jobs' = [jobs EXCEPT ![j].pc = "stt_call", ![j].attempt = @ + 1]
    /\ UNCHANGED <<env, sessions, userVoice, now, accounts>>

\* The reframing request of run j returns the (trimmed) text.
ReframeSucceeds(j, text) ==
    /\ jobs[j].pc = "reframe_call"
    /\ Step(j, AfterReframing(Ctx(sessions, jobs[j]), text))

ReframerErrors == {"Request timed out."}

\* The reframing request of run j fails.
ReframeFails(j, message) ==
    /\ jobs[j].pc = "reframe_call"
    /\ Step(j, ReframingFailed(Ctx(sessions, jobs[j]), "Reframing failed: " \o message))

\* The synthesis request of run j returns the audio, saved under audioFilename.
TtsSucceeds(j) ==
    /\ jobs[j].pc = "tts_call"
    /\ Step(j, TtsSucceeded(Ctx(sessions, jobs[j]), AudioFilename(jobs[j].sid)))

TtsErrors == {"Request failed with status code 401"}

\* The synthesis request of run j fails.
TtsFails(j, message) ==
    /\ jobs[j].pc = "tts_call"
    /\ Step(j, TtsFailed(Ctx(sessions, jobs[j]), "TTS generation failed: " \o message))

Next ==
    \/ PostSessions(Owner)
    \/ \E s \in SessionIds, u \in Users : PostUploadRejected(s, u)
    \/ \E s \in SessionIds, u \in Users : PostUpload(s, u)
    \/ \E s \in SessionIds, u \in Users : PostProcessRejected(s, u)
    \/ \E s \in SessionIds, u \in Users : PostProcess(s, u)
    \/ \E s \in SessionIds, u \in Users : GetSessionRoute(s, u)
    \/ \E u \in Users : GetSessionsRoute(u)
    \/ \E s \in SessionIds, u \in Users : PostUploadNoFile(s, u)
    \/ \E j \in DOMAIN jobs, t \in TranscriberTexts : WhisperSucceeds(j, t)
    \/ \E j \in DOMAIN jobs, e \in WhisperErrors : WhisperFails(j, e)
    \/ \E j \in DOMAIN jobs : WhisperBackoffElapsed(j)
    \/ \E j \in DOMAIN jobs, t \in ReframerTexts : ReframeSucceeds(j, t)
    \/ \E j \in DOMAIN jobs, m \in ReframerErrors : ReframeFails(j, m)
    \/ \E j \in DOMAIN jobs : TtsSucceeds(j)
    \/ \E j \in DOMAIN jobs, m \in TtsErrors : TtsFails(j, m)

Spec == Init /\ [][Next]_vars

\* The steps of run j: an adapter request of the run returns or fails, or its
\* backoff timer fires.
RunStep(j) ==
    /\ j \in DOMAIN jobs
    /\ \/ \E t \in TranscriberTexts : WhisperSucceeds(j, t)
       \/ \E e \in WhisperErrors : WhisperFails(j, e)
       \/ WhisperBackoffElapsed(j)
       \/ \E t \in ReframerTexts : ReframeSucceeds(j, t)
       \/ \E m \in ReframerErrors : ReframeFails(j, m)
       \/ TtsSucceeds(j)
       \/ \E m \in TtsErrors : TtsFails(j, m)

\* Every request has a timeout (axios) or is answered, and every backoff is a
\* setTimeout: a pending run is eventually resumed.
SpecLive == Spec /\ \A j \in 1..MaxRuns : WF_vars(RunStep(j))

\* ------------------------------------------------ the retry engine alone
\* SpecRetry follows transcribeWithWhisper through one run of a session with
\* one uploaded file, and keeps in the run's log what the loop did: every
\* request with its attempt number and outcome, and every backoff it started.
AnsweredEv(attempt) == [ev |-> "answered", attempt |-> attempt]
FailedEv(attempt, error) == [ev |-> "failed", attempt |-> attempt, error |-> error]
WaitEv(waitTime) == [ev |-> "wait", waitTime |-> waitTime]

\* A refused connection, as axios reports it, besides the errors of WhisperErrors.
ConnectionRefused ==
    [status |-> 0, code |-> "ECONNREFUSED",
     message |-> "connect ECONNREFUSED 162.159.140.245:443"]

EngineErrors == WhisperErrors \cup {ConnectionRefused}

\* The setTimeout of a backoff the attempt ended with, if it ended with one.
NotedWait(c) ==
    IF c.job.pc = "stt_wait" THEN Logged(c, WaitEv(Last(c.job.waits))) ELSE c

RetryUpload(sessionId, userId) ==
    /\ sessionExists(sessions, sessionId)
    /\ Len(getSession(sessions, sessionId).audioFiles) = 0
    /\ PostUpload(sessionId, userId)

RetryTrigger(sessionId, userId) ==
    /\ jobs = <<>>
    /\ PostProcess(sessionId, userId)

\* RetrySucceeds that ignores the answer and sends the request again.
RetrySucceedsCallsAgain(j, transcription) ==
    /\ jobs[j].pc = "stt_call"
    /\ jobs[j].attempt < maxRetries
    /\ jobs' = [jobs EXCEPT ![j].attempt = @ + 1,
                            ![j].log = Append(@, AnsweredEv(jobs[j].attempt))]
    /\ UNCHANGED <<env, sessions, userVoice, now, accounts>>

\* Request number jobs[j].attempt of run j returns the text.
RetrySucceeds(j, transcription) ==
    /\ jobs[j].pc = "stt_call"
    /\ Step(j, AfterTranscription(
                  Logged(Ctx(sessions, jobs[j]), AnsweredEv(jobs[j].attempt)),
                  transcription))

\* Request number jobs[j].attempt of run j fails with error.
RetryFails(j, error) ==
    /\ jobs[j].pc = "stt_call"
    /\ Step(j, NotedWait(WhisperAttemptFailed(
                  Logged(Ctx(sessions, jobs[j]), FailedEv(jobs[j].attempt, error)),
                  error)))

NextRetry ==
    \/ PostSessions(Owner)
    \/ \E s \in SessionIds : RetryUpload(s, Owner)
    \/ \E s \in SessionIds : RetryTrigger(s, Owner)
    \/ \E j \in DOMAIN jobs, t \in TranscriberTexts : RetrySucceeds(j, t)
    \/ \E j \in DOMAIN jobs, e \in EngineErrors : RetryFails(j, e)
    \/ \E j \in DOMAIN jobs : WhisperBackoffElapsed(j)
    \/ \E j \in DOMAIN jobs, t \in ReframerTexts : ReframeSucceeds(j, t)
    \/ \E j \in DOMAIN jobs, m \in ReframerErrors : ReframeFails(j, m)
    \/ \E j \in DOMAIN jobs : TtsSucceeds(j)
    \/ \E j \in DOMAIN jobs, m \in TtsErrors : TtsFails(j, m)

SpecRetry == Init /\ [][NextRetry]_vars

\* ------------------------------------------------ the session store alone
\* SpecStore follows the session files under createSession and updateSession
\* while the clock goes on.  A session gets a fresh uuid, here any unused id of
\* StoreIds; Date.now() has millisecond resolution, so any number of calls can
\* see the same value of now.
MaxClock == 1

StoreIds == {1, 2, 3}

StoreUpdates ==
    { [status |-> "processing"],
      [status |-> "transcribing"],
      [transcript |-> "hello", status |-> "transcribed"] }

InitStore ==
    /\ env = AllSet
    /\ sessions = <<>>
    /\ userVoice = [u \in Users |-> NULL]
    /\ jobs = <<>>
    /\ now = 0
    /\ NoAccounts

StoreCreate(id, userId) ==
    /\ ~ sessionExists(sessions, id)
    /\ sessions' = [k \in DOMAIN sessions \cup {id} |->
                       IF k = id THEN createSession(id, userId) ELSE sessions[k]]
    /\ UNCHANGED <<env, userVoice, jobs, now, accounts>>

StoreUpdate(id, updates) ==
    /\ sessions' = updateSessionCall(sessions, id, updates).store
    /\ UNCHANGED <<env, userVoice, jobs, now, accounts>>

Tick ==
    /\ now < MaxClock
    /\ now' = now + 1
    /\ UNCHANGED <<env, sessions, userVoice, jobs, accounts>>

NextStore ==
    \/ \E id \in StoreIds, u \in Users : StoreCreate(id, u)
    \/ \E id \in StoreIds, updates \in StoreUpdates : StoreUpdate(id, updates)
    \/ Tick

SpecStore == InitStore /\ [][NextStore]_vars

\* ------------------------------------------------------ concurrent runs
\* SpecConcurrent follows up to MaxSessions sessions of one owner, each with
\* one uploaded file, and up to MaxTriggers accepted triggers, whose runs are
\* all kept: the runs can belong to one session or to different sessions, and
\* their steps interleave in any order.  The services are all configured.
MaxSessions == 2
MaxTriggers == 2

PostSessionsAgain(userId) ==
    /\ Len(sessions) < MaxSessions
    /\ sessions' = Append(sessions, createSession(Len(sessions) + 1, userId))
    /\ UNCHANGED <<env, userVoice, jobs, now, accounts>>

\* POST /sessions/:id/process, accepted; the route looks at the session
\* record only, whatever runs are pending.
PostProcessAgain(sessionId, userId) ==
    /\ Len(jobs) < MaxTriggers
    /\ ProcessCheck(sessions, sessionId, userId) = 200
    /\ LET c3 == AcceptedTrigger(sessions, sessionId)
       IN  /\ sessions' = c3.store
           /\ jobs' = Append(jobs, c3.job)
    /\ UNCHANGED <<env, userVoice, now, accounts>>

NextConcurrent ==
    \/ PostSessionsAgain(Owner)
    \/ \E s \in 1..MaxSessions : RetryUpload(s, Owner)
    \/ \E s \in 1..MaxSessions : PostProcessRejected(s, Owner)
    \/ \E s \in 1..MaxSessions : PostProcessAgain(s, Owner)
    \/ \E j \in DOMAIN jobs, t \in TranscriberTexts : WhisperSucceeds(j, t)
    \/ \E j \in DOMAIN jobs, e \in WhisperErrors : WhisperFails(j, e)
    \/ \E j \in DOMAIN jobs : WhisperBackoffElapsed(j)
    \/ \E j \in DOMAIN jobs, t \in ReframerTexts : ReframeSucceeds(j, t)
    \/ \E j \in DOMAIN jobs, m \in ReframerErrors : ReframeFails(j, m)
    \/ \E j \in DOMAIN jobs : TtsSucceeds(j)
    \/ \E j \in DOMAIN jobs, m \in TtsErrors : TtsFails(j, m)

SpecConcurrent == InitStore /\ [][NextConcurrent]_vars

\* ------------------------------------------------------ voice cloning
\* SpecVoice follows one session with one file through its runs while users
\* clone their voices (POST /voice/clone).  The owner's user record may be
\* unreadable from the start: getUserById then returns null or throws, and
\* generateAudio treats both alike.
ClonedVoices == {"voice-1", "voice-2"}

InitVoice ==
    /\ env \in { AllSet,
                 [AllSet EXCEPT !.ELEVENLABS_VOICE_ID = FALSE],
                 [AllSet EXCEPT !.ELEVENLABS_API_KEY = FALSE] }
    /\ sessions = <<>>
    /\ userVoice \in { [u \in Users |-> NULL], [u \in Users \ {Owner} |-> NULL] }
    /\ jobs = <<>>
    /\ now = 0
    /\ NoAccounts

\* POST /voice/clone: createVoiceClone returned voiceId and updateUser stored
\* it in the caller's record.
PostVoiceClone(userId, voiceId) ==
    /\ env.ELEVENLABS_API_KEY
    /\ userId \in DOMAIN userVoice
    /\ userVoice' = [userVoice EXCEPT ![userId] = voiceId]
    /\ UNCHANGED <<env, sessions, jobs, now, accounts>>

\* POST /voice/clone answered 500: no API key, the cloning request failed, or
\* updateUser found no user record.
PostVoiceCloneFails(userId) ==
    /\ userId \in Users
    /\ UNCHANGED vars

NextVoice ==
    \/ PostSessions(Owner)
    \/ \E s \in SessionIds : RetryUpload(s, Owner)
    \/ \E s \in SessionIds : PostProcess(s, Owner)
    \/ \E u \in Users, v \in ClonedVoices : PostVoiceClone(u, v)
    \/ \E u \in Users : PostVoiceCloneFails(u)
    \/ \E j \in DOMAIN jobs : WhisperSucceeds(j, "hello")
    \/ \E j \in DOMAIN jobs : ReframeSucceeds(j, "HELLO")
    \/ \E j \in DOMAIN jobs : TtsSucceeds(j)
    \/ \E j \in DOMAIN jobs, m \in TtsErrors : TtsFails(j, m)

SpecVoice == InitVoice /\ [][NextVoice]_vars

\* ------------------------------------------------------------ accounts
\* The auth routes (POST /auth/signup, POST /auth/login) with the account
\* lockout and the user service.  bcrypt.hash and bcrypt.compare run on the
\* thread pool: the signup suspends between createUser's look into the email
\* index and its writes, the login between the lockout check and the verdict
\* on the password.  Everything else in the two handlers is synchronous, so a
\* request is one step (answered at once) or two (suspended, then resumed).
\* Requests are the ones that pass the rate limiter and the validator.
MAX_FAILED_ATTEMPTS == 5
LOCKOUT_DURATION == 15 * 60 * 1000

\* lockedUntil: null, lastAttempt: null
NoDate == -1

\* MaxRequests: the auth requests that can be pending at the same time.
\* MaxUsers: the user records that can be created.
\* MaxTicks: how often the clock advances, by half a lockout duration.
MaxRequests == 2
MaxUsers == 2
MaxTicks == 2

Emails == {"a@x.io", "A@x.io", "b@x.io"}
Passwords == {"right", "wrong"}

\* String.prototype.toLowerCase, on Emails.
toLowerCase(email) == IF email = "A@x.io" THEN "a@x.io" ELSE email

\* The lockout file of an email is named by the hash of the lowercased email.
getLockoutPath(email) == toLowerCase(email)

\* recordFailedAttempt: the lockout files after the call (the record of the
\* email is what the call returns).
recordFailedAttempt(store, email) ==
    LET path == getLockoutPath(email)
        lockoutData == IF path \in DOMAIN store THEN store[path]
                       ELSE [email |-> toLowerCase(email), failedAttempts |-> 0,
                             lockedUntil |-> NoDate, lastAttempt |-> NoDate]
        counted == [lockoutData EXCEPT !.failedAttempts = @ + 1, !.lastAttempt = now]
        written == IF counted.failedAttempts >= MAX_FAILED_ATTEMPTS
                   THEN [counted EXCEPT !.lockedUntil = now + LOCKOUT_DURATION]
                   ELSE counted
    IN  [k \in DOMAIN store \cup {path} |-> IF k = path THEN written ELSE store[k]]

\* clearFailedAttempts that leaves the record in place.
clearFailedAttemptsKeeps(store, email) == store

clearFailedAttempts(store, email) ==
    [k \in DOMAIN store \ {getLockoutPath(email)} |-> store[k]]

\* isAccountLocked: whether the account is locked and until when, and the
\* lockout files after the call (an expired lock is deleted by the check).
isAccountLocked(store, email) ==
    LET path == getLockoutPath(email) IN
    IF path \notin DOMAIN store
    THEN [locked |-> FALSE, lockedUntil |-> NoDate, store |-> store]
    ELSE IF store[path].lockedUntil # NoDate
    THEN IF store[path].lockedUntil > now
         THEN [locked |-> TRUE, lockedUntil |-> store[path].lockedUntil, store |-> store]
         ELSE [locked |-> FALSE, lockedUntil |-> NoDate,
               store |-> clearFailedAttempts(store, email)]
    ELSE [locked |-> FALSE, lockedUntil |-> NoDate, store |-> store]

\* cleanupExpiredLockouts: the files whose lock has expired are deleted.
cleanupExpiredLockouts(store) ==
    [k \in {e \in DOMAIN store :
               ~ (store[e].lockedUntil # NoDate /\ store[e].lockedUntil <= now)}
        |-> store[k]]

\* bcrypt.hash and bcrypt.compare (the salt is not modelled).
hash(password) == <<"bcrypt", password>>
verifyPassword(password, hashedPassword) == hashedPassword = hash(password)

\* getUserByEmail: null unless the index has the lowercased email and the
\* user file exists.
getUserByEmail(index, files, email) ==
    IF toLowerCase(email) \in DOMAIN index /\ index[toLowerCase(email)] \in DOMAIN files
    THEN [found |-> TRUE, user |-> files[index[toLowerCase(email)]]]
    ELSE [found |-> FALSE, user |-> <<>>]

\* The answers of the two routes.
LockedAtCheck(message, lockedUntil) ==
    [code |-> 423, error |-> message, lockedUntil |-> lockedUntil]
InvalidLogin == [code |-> 401, error |-> "Invalid email or password"]
LockedNow(lockedUntil) ==
    [code |-> 423, error |-> "Account locked due to too many failed attempts",
     lockedUntil |-> lockedUntil]
WrongPassword(remainingAttempts) ==
    [code |-> 401, error |-> "Invalid email or password",
     remainingAttempts |-> remainingAttempts]
\* The answer to a wrong password, from the record recordFailedAttempt
\* returned: 423 if the account is now locked, else 401 with what is left.
WrongPasswordAnswer(lockoutInfo) ==
    IF lockoutInfo.lockedUntil # NoDate
    THEN LockedNow(lockoutInfo.lockedUntil)
    ELSE WrongPassword(MAX_FAILED_ATTEMPTS - lockoutInfo.failedAttempts)
LoggedIn(userId) == [code |-> 200, user |-> userId]
SignedUp(userId) == [code |-> 201, user |-> userId]
AlreadyExists == [code |-> 409, error |-> "User with this email already exists"]

\* A request: the route, where it stands (compare and hash are the two
\* suspension points), what it was sent, what it holds in local variables
\* (the user it read, the index it loaded, the id it drew), and its answer.
Request(op, pc, email, password, user, index, userId, response) ==
    [op |-> op, pc |-> pc, email |-> email, password |-> password, user |-> user,
     index |-> index, userId |-> userId, response |-> response]

Answered(op, email, password, response) ==
    Request(op, "done", email, password, <<>>, <<>>, 0, response)

\* Where the next request is recorded: the first slot whose request has been
\* answered, else a new slot (0 when MaxRequests requests are pending).
FreeRequest ==
    IF \E r \in DOMAIN requests : requests[r].pc = "done"
    THEN CHOOSE r \in DOMAIN requests :
            requests[r].pc = "done"
            /\ \A k \in DOMAIN requests : requests[k].pc = "done" => r <= k
    ELSE IF Len(requests) < MaxRequests THEN Len(requests) + 1
    ELSE 0

Recorded(r, request) ==
    [k \in DOMAIN requests \cup {r} |-> IF k = r THEN request ELSE requests[k]]

\* uuidv4(): an id no user file and no pending signup has.
FreshIds ==
    {id \in 1..MaxUsers :
        /\ id \notin DOMAIN users
        /\ \A r \in DOMAIN requests : requests[r].pc = "hash" => requests[r].userId # id}

\* POST /auth/login up to the comparison of the password: 423 for a locked
\* account, a recorded failure and 401 for an unknown email, else the request
\* suspends in bcrypt.compare with the user record it read.
PostLogin(email, password) ==
    /\ FreeRequest # 0
    /\ LET lockoutStatus == isAccountLocked(lockouts, email)
           user == getUserByEmail(emailIndex, users, email)
       IN  IF lockoutStatus.locked
           THEN /\ lockouts' = lockoutStatus.store
                /\ requests' = Recorded(FreeRequest,
                       Answered("login", email, password,
                           LockedAtCheck("Account is temporarily locked due to too many failed login attempts",
                                         lockoutStatus.lockedUntil)))
           ELSE IF ~ user.found
           THEN /\ lockouts' = recordFailedAttempt(lockoutStatus.store, email)
                /\ requests' = Recorded(FreeRequest,
                       Answered("login", email, password, InvalidLogin))
           ELSE /\ lockouts' = lockoutStatus.store
                /\ requests' = Recorded(FreeRequest,
                       Request("login", "compare", email, password, user.user,
                               <<>>, 0, [code |-> 0]))
    /\ UNCHANGED <<env, sessions, userVoice, jobs, now, users, emailIndex>>

\* bcrypt.compare of login r has returned.
LoginCompared(r) ==
    /\ requests[r].pc = "compare"
    /\ LET email == requests[r].email
           password == requests[r].password
       IN  IF ~ verifyPassword(password, requests[r].user.password)
           THEN LET after == recordFailedAttempt(lockouts, email)
                    lockoutInfo == after[getLockoutPath(email)]
                IN  /\ lockouts' = after
                    /\ requests' = [requests EXCEPT ![r] =
                           Answered("login", email, password,
                               WrongPasswordAnswer(lockoutInfo))]
           ELSE /\ lockouts' = clearFailedAttempts(lockouts, email)
                /\ requests' = [requests EXCEPT ![r] =
                       Answered("login", email, password,
                                LoggedIn(requests[r].user.id))]
    /\ UNCHANGED <<env, sessions, userVoice, jobs, now, users, emailIndex>>

\* POST /auth/signup up to the hashing of the password: 423 for a locked
\* account, 409 if the index it loads has the email, else createUser draws an
\* id and suspends in bcrypt.hash with the index it loaded.
PostSignup(email, password) ==
    /\ FreeRequest # 0
    /\ FreshIds # {}
    /\ LET lockoutStatus == isAccountLocked(lockouts, email)
           userId == CHOOSE id \in FreshIds : \A k \in FreshIds : id <= k
       IN  /\ lockouts' = lockoutStatus.store
           /\ requests' = Recorded(FreeRequest,
                  IF lockoutStatus.locked
                  THEN Answered("signup", email, password,
                           LockedAtCheck("Account is temporarily locked due to too many failed attempts",
                                         lockoutStatus.lockedUntil))
                  ELSE IF toLowerCase(email) \in DOMAIN emailIndex
                  THEN Answered("signup", email, password, AlreadyExists)
                  ELSE Request("signup", "hash", email, password, <<>>,
                               emailIndex, userId, [code |-> 0]))
    /\ UNCHANGED <<env, sessions, userVoice, jobs, now, users, emailIndex>>

\* bcrypt.hash of signup r has returned: createUser writes the user file, adds
\* the email to the index it loaded before the hashing and saves that index;
\* the route clears the failed attempts and answers 201.
SignupHashed(r) ==
    /\ requests[r].pc = "hash"
    /\ LET email == toLowerCase(requests[r].email)
           userId == requests[r].userId
           user == [id |-> userId, email |-> email,
                    password |-> hash(requests[r].password)]
           loaded == requests[r].index
       IN  /\ users' = [k \in DOMAIN users \cup {userId} |->
                           IF k = userId THEN user ELSE users[k]]
           /\ emailIndex' = [e \in DOMAIN loaded \cup {email} |->
                                IF e = email THEN userId ELSE loaded[e]]
           /\ lockouts' = clearFailedAttempts(lockouts, requests[r].email)
           /\ requests' = [requests EXCEPT ![r] =
                  Answered("signup", requests[r].email, requests[r].password,
                           SignedUp(userId))]
    /\ UNCHANGED <<env, sessions, userVoice, jobs, now>>

\* The hourly cleanupExpiredLockouts.
CleanupLockouts ==
    /\ lockouts' = cleanupExpiredLockouts(lockouts)
    /\ UNCHANGED <<env, sessions, userVoice, jobs, now, users, emailIndex, requests>>

\* Time passes.
AccountsTick ==
    /\ now < MaxTicks * (LOCKOUT_DURATION \div 2)
    /\ now' = now + LOCKOUT_DURATION \div 2
    /\ UNCHANGED <<env, sessions, userVoice, jobs, accounts>>

NextAccounts ==
    \/ \E email \in Emails : PostSignup(email, "right")
    \/ \E r \in DOMAIN requests : SignupHashed(r)
    \/ \E email \in Emails, password \in Passwords : PostLogin(email, password)
    \/ \E r \in DOMAIN requests : LoginCompared(r)
    \/ CleanupLockouts
    \/ AccountsTick

SpecAccounts == InitStore /\ [][NextAccounts]_vars

\* ------------------------------------------- updateSession, call by call
\* updateSession reads the record (the readFileSync inside getSession),
\* suspends at `await getSession(sessionId)`, and after it resumes merges the
\* updates into the record it read and writes the whole record.  Inside one
\* server process nothing else runs between the two halves (see Scheduling
\* above), which is why Spec takes a call as one step.  The session file is
\* however shared by whoever works on the sessions directory, and a writer in
\* another process is scheduled independently.  SpecWriters follows the calls
\* of MaxWriters such writers on one session, each call in its two halves.
MaxWriters == 2

WriterUpdates ==
    { [status |-> "transcribing"],
      [transcript |-> "hello", status |-> "transcribed"],
      [status |-> "error", error |-> "Reframing failed: Request timed out."] }

\* A writer that is not inside a call of updateSession.
Idle == [pc |-> "idle", sid |-> 0, updates |-> <<>>, found |-> FALSE,
         session |-> <<>>, threw |-> NULL, lost |-> {}]

InitWriters ==
    /\ env = AllSet
    /\ sessions = <<>>
    /\ userVoice = [u \in Users |-> NULL]
    /\ jobs = [w \in 1..MaxWriters |-> Idle]
    /\ now = 0
    /\ NoAccounts

\* Writer w calls updateSession(id, updates): getSession reads the file
\* (null when it does not exist) and the call suspends at the await.
UpdateReads(w, id, updates) ==
    /\ jobs[w].pc = "idle"
    /\ jobs' = [jobs EXCEPT ![w] =
                   [pc |-> "read", sid |-> id, updates |-> updates,
                    found |-> sessionExists(sessions, id),
                    session |-> IF sessionExists(sessions, id)
                                THEN getSession(sessions, id) ELSE <<>>,
                    threw |-> NULL, lost |-> {}]]
    /\ UNCHANGED <<env, sessions, userVoice, now, accounts>>

\* The fields of the stored record that differ from the record writer w read
\* and that w's updates do not name.
WrittenSinceRead(w) ==
    {f \in DOMAIN sessions[jobs[w].sid] \ (DOMAIN jobs[w].updates \cup {"updatedAt"}) :
        sessions[jobs[w].sid][f] # jobs[w].session[f]}

\* The second half of updateSession that reads the record again before it
\* merges: what was written since the first read is kept.
UpdateWritesFresh(w) ==
    /\ jobs[w].pc = "read"
    /\ jobs[w].found
    /\ sessions' = updateSession(sessions, jobs[w].sid, jobs[w].updates)
    /\ jobs' = [jobs EXCEPT ![w].pc = "idle", ![w].lost = WrittenSinceRead(w)]
    /\ UNCHANGED <<env, userVoice, now, accounts>>

\* The call of writer w resumes: it throws if it had read null, else it writes
\* {...session, ...updates, updatedAt} with the session it read.
UpdateWrites(w) ==
    /\ jobs[w].pc = "read"
    /\ jobs[w].found
    /\ sessions' = [sessions EXCEPT ![jobs[w].sid] =
                       mergeUpdates(jobs[w].session, jobs[w].updates)]
    /\ jobs' = [jobs EXCEPT ![w].pc = "idle", ![w].lost = WrittenSinceRead(w)]
    /\ UNCHANGED <<env, userVoice, now, accounts>>

UpdateThrows(w) ==
    /\ jobs[w].pc = "read"
    /\ ~ jobs[w].found
    /\ jobs' = [jobs EXCEPT ![w].pc = "idle", ![w].threw = "Session not found"]
    /\ UNCHANGED <<env, sessions, userVoice, now, accounts>>

NextWriters ==
    \/ PostSessions(Owner)
    \/ \E w \in 1..MaxWriters, id \in SessionIds, updates \in WriterUpdates :
          UpdateReads(w, id, updates)
    \/ \E w \in 1..MaxWriters : UpdateWrites(w)
    \/ \E w \in 1..MaxWriters : UpdateThrows(w)
    \/ Tick

SpecWriters == InitWriters /\ [][NextWriters]_vars

\* ============================================================== claims
\* ------------------------------------------------------------- helpers
Events(job, kind, adapter) ==
    {i \in DOMAIN job.log : job.log[i].ev = kind /\ job.log[i].adapter = adapter}

Called(job, adapter) == Events(job, "call", adapter) # {}
Returned(job, adapter) == Events(job, "return", adapter) # {}
Threw(job, adapter) == Events(job, "throw", adapter) # {}

ThrownMessage(job, adapter) ==
    job.log[CHOOSE i \in Events(job, "throw", adapter) : TRUE].message

WritesField(job, field) ==
    \E i \in DOMAIN job.log :
        job.log[i].ev = "update" /\ field \in DOMAIN job.log[i].updates

\* This step ends run j (a run that fails before its first request ends in
\* the step of the trigger that started it).
RunEnds(j) ==
    /\ j \in DOMAIN jobs'
    /\ Finished(jobs'[j])
    /\ (j \in DOMAIN jobs => jobs[j] # jobs'[j])

Stored(job) == sessions[job.sid]
StoredNext(j) == sessions'[jobs'[j].sid]

\* ------------------------------------------------------------------ C1
\* C1 as stated: a run in which the three adapters succeed ends with status
\* completed and with transcript and reframedText set and non-empty.
C1_SuccessNonEmpty ==
    [][\A j \in DOMAIN jobs' :
          (RunEnds(j) /\ Returned(jobs'[j], "generateAudio")) =>
              /\ StoredNext(j).status = "completed"
              /\ StoredNext(j).transcript \notin {NULL, ""}
              /\ StoredNext(j).reframedText \notin {NULL, ""}]_vars

\* A successful run completed with an empty transcript stored.
C1_Witness ==
    \E j \in DOMAIN jobs :
        /\ jobs[j].pc = "done"
        /\ Returned(jobs[j], "generateAudio")
        /\ Stored(jobs[j]).status = "completed"
        /\ Stored(jobs[j]).transcript = ""
        /\ Stored(jobs[j]).reframedText # NULL

\* ------------------------------------------------------------------ C2
\* C2: a run whose synthesis step fails ends done, with status completed,
\* generatedAudioUrl null and error holding the TTS note of that failure, and
\* the run never wrote status error.
C2_TtsFailureCompletes ==
    [][\A j \in DOMAIN jobs' :
          (RunEnds(j) /\ Threw(jobs'[j], "generateAudio")) =>
              /\ jobs'[j].pc = "done"
              /\ StoredNext(j).status = "completed"
              /\ StoredNext(j).generatedAudioUrl = NULL
              /\ StoredNext(j).error =
                    TtsUnavailable(ThrownMessage(jobs'[j], "generateAudio"))
              /\ \A i \in DOMAIN jobs'[j].log :
                    (jobs'[j].log[i].ev = "update"
                       /\ "status" \in DOMAIN jobs'[j].log[i].updates)
                    => jobs'[j].log[i].updates.status # "error"]_vars

C2_Witness ==
    \E j \in DOMAIN jobs :
        /\ jobs[j].pc = "done"
        /\ Threw(jobs[j], "generateAudio")
        /\ Returned(jobs[j], "reframeText")
        /\ Stored(jobs[j]).status = "completed"
        /\ Stored(jobs[j]).generatedAudioUrl = NULL
        /\ Stored(jobs[j]).error # NULL

\* ------------------------------------------------------------------ C3
\* What transcribeWithWhisper throws when its last attempt fails.
ExhaustedMessages ==
    {"Transcription failed: Rate limit exceeded. Please try again in a few minutes."}
    \cup {"Transcription failed after 3 attempts: " \o e.message : e \in WhisperErrors}

TranscriberExhausted(job) ==
    /\ Threw(job, "transcribeAudio")
    /\ ThrownMessage(job, "transcribeAudio") \in ExhaustedMessages

\* C3 as stated: a run whose transcription fails on all retry attempts ends
\* with status error and with transcript and reframedText unset.
C3_ExhaustedLeavesUnset ==
    [][\A j \in DOMAIN jobs' :
          (RunEnds(j) /\ TranscriberExhausted(jobs'[j])) =>
              /\ StoredNext(j).status = "error"
              /\ StoredNext(j).transcript = NULL
              /\ StoredNext(j).reframedText = NULL]_vars

\* C3 amended: a run whose transcription fails on all retry attempts ends
\* with status error and the failure message stored, and the run has written
\* neither transcript nor reframedText: its last step leaves both as they were
\* (unset, unless another run of the session stored them).
C3_ExhaustedWritesNoResult ==
    [][\A j \in DOMAIN jobs' :
          (RunEnds(j) /\ TranscriberExhausted(jobs'[j])) =>
              /\ jobs'[j].pc = "failed"
              /\ StoredNext(j).status = "error"
              /\ StoredNext(j).error = ThrownMessage(jobs'[j], "transcribeAudio")
              /\ StoredNext(j).transcript = sessions[jobs'[j].sid].transcript
              /\ StoredNext(j).reframedText = sessions[jobs'[j].sid].reframedText
              /\ ~ WritesField(jobs'[j], "transcript")
              /\ ~ WritesField(jobs'[j], "reframedText")]_vars

C3_Witness ==
    \E j \in DOMAIN jobs :
        /\ jobs[j].pc = "failed"
        /\ TranscriberExhausted(jobs[j])
        /\ Stored(jobs[j]).status = "error"
        /\ Stored(jobs[j]).transcript # NULL
        /\ Stored(jobs[j]).reframedText # NULL

\* ------------------------------------------------------------------ C4
CriticalFailure(job) == Threw(job, "transcribeAudio") \/ Threw(job, "reframeText")

CriticalMessage(job) ==
    IF Threw(job, "transcribeAudio") THEN ThrownMessage(job, "transcribeAudio")
    ELSE ThrownMessage(job, "reframeText")

\* No adapter is called after the first throw of a critical stage.
NoCallAfterCriticalThrow(job) ==
    \A i, k \in DOMAIN job.log :
        (/\ job.log[i].ev = "throw"
         /\ job.log[i].adapter \in {"transcribeAudio", "reframeText"}
         /\ k > i)
        => job.log[k].ev # "call"

\* C4: a transcription or reframing failure ends the run as failed with
\* status error and the failure message stored; the run calls no adapter after
\* the failure (no reframeText after a transcription failure, no generateAudio
\* after either), and a failed run takes no further step: its record changes
\* only when a new trigger starts another run.
C4_CriticalFailureAborts ==
    [][/\ \A j \in DOMAIN jobs' :
             CriticalFailure(jobs'[j]) =>
                 /\ jobs'[j].pc = "failed"
                 /\ NoCallAfterCriticalThrow(jobs'[j])
                 /\ ~ Called(jobs'[j], "generateAudio")
                 /\ Threw(jobs'[j], "transcribeAudio") => ~ Called(jobs'[j], "reframeText")
                 /\ RunEnds(j) =>
                       /\ StoredNext(j).status = "error"
                       /\ StoredNext(j).error = CriticalMessage(jobs'[j])
       /\ \A j \in DOMAIN jobs :
             (jobs[j].pc = "failed" /\ jobs'[j] # jobs[j]) =>
                 \E s \in SessionIds, u \in Users : PostProcess(s, u)]_vars

C4_Witness ==
    \E j \in DOMAIN jobs :
        /\ jobs[j].pc = "failed"
        /\ Threw(jobs[j], "reframeText")
        /\ Returned(jobs[j], "transcribeAudio")
        /\ Stored(jobs[j]).status = "error"
        /\ Stored(jobs[j]).error = ThrownMessage(jobs[j], "reframeText")

\* ------------------------------------------------------------------ C5

IsCall(e, adapter) == e.ev = "call" /\ e.adapter = adapter
IsReturn(e, adapter) == e.ev = "return" /\ e.adapter = adapter

StatusOnly(status) == UpdateEv("pipeline", [status |-> status])

\* The order of the writes and calls of one run.
StageOrder(log) ==
    \A i \in DOMAIN log :
        /\ IsCall(log[i], "transcribeAudio") =>
              /\ i > 1
              /\ log[i - 1] = StatusOnly("transcribing")
        /\ IsReturn(log[i], "transcribeAudio") =>
              /\ i < Len(log)
              /\ log[i + 1] = UpdateEv("pipeline",
                                [transcript |-> log[i].value, status |-> "transcribed"])
        /\ IsCall(log[i], "reframeText") =>
              /\ i > 3
              /\ log[i - 1] = StatusOnly("reframing")
              /\ log[i - 2] = UpdateEv("pipeline",
                                [transcript |-> log[i].arg, status |-> "transcribed"])
              /\ log[i - 3] = ReturnEv("transcribeAudio", log[i].arg)
        /\ IsReturn(log[i], "reframeText") =>
              /\ i < Len(log)
              /\ log[i + 1] = UpdateEv("pipeline",
                                [reframedText |-> log[i].value, status |-> "reframed"])
        /\ IsCall(log[i], "generateAudio") =>
              /\ i > 3
              /\ log[i - 1] = StatusOnly("generating_audio")
              /\ log[i - 2] = UpdateEv("pipeline",
                                [reframedText |-> log[i].arg[1], status |-> "reframed"])
              /\ log[i - 3] = ReturnEv("reframeText", log[i].arg[1])
        /\ IsReturn(log[i], "generateAudio") =>
              /\ i < Len(log)
              /\ log[i + 1] = UpdateEv("pipeline",
                                [generatedAudioUrl |-> "/uploads/" \o log[i].value,
                                 status |-> "completed"])

InProgressStatus(adapter) ==
    CASE adapter = "transcribeAudio" -> "transcribing"
      [] adapter = "reframeText" -> "reframing"
      [] adapter = "generateAudio" -> "generating_audio"

\* The step suspends run j on a request of an adapter it has just called.
SuspendsOnCall(j) ==
    /\ ~ Finished(jobs'[j])
    /\ (j \in DOMAIN jobs => jobs[j].log # jobs'[j].log)
    /\ Last(jobs'[j].log).ev = "call"

\* C5: in every run each adapter is called right after its in-progress status
\* was written, which follows the write of the previous stage's result and
\* done status; each result is written right after the adapter returns; and
\* when a run suspends on an adapter call the stored status is that adapter's
\* in-progress status.
C5_StatusBeforeStage ==
    [][\A j \in DOMAIN jobs' :
          /\ StageOrder(jobs'[j].log)
          /\ SuspendsOnCall(j) =>
                StoredNext(j).status = InProgressStatus(Last(jobs'[j].log).adapter)]_vars

C5_Witness ==
    \E j \in DOMAIN jobs :
        /\ jobs[j].pc = "tts_call"
        /\ Called(jobs[j], "generateAudio")
        /\ Stored(jobs[j]).status = "generating_audio"
        /\ Stored(jobs[j]).reframedText = jobs[j].reframedText

\* ------------------------------------------------------------------ C6
StatusOrder ==
    <<"created", "audio_uploaded", "processing", "transcribing", "transcribed",
      "reframing", "reframed", "generating_audio", "completed">>

InOrder(status) == \E i \in DOMAIN StatusOrder : StatusOrder[i] = status

Rank(status) == CHOOSE i \in DOMAIN StatusOrder : StatusOrder[i] = status

Regresses(old, new) == InOrder(old) /\ InOrder(new) /\ Rank(new) < Rank(old)

\* C6 as stated: the stored status of a session moves to an earlier state of
\* the order created .. completed only in the step of a processing trigger.
C6_StatusNeverRegresses ==
    [][\A s \in DOMAIN sessions :
          Regresses(sessions[s].status, sessions'[s].status) =>
              \E u \in Users : PostProcess(s, u)]_vars

\* A session back at audio_uploaded while a run of it is reframing.
C6_Witness ==
    \E j \in DOMAIN jobs :
        /\ jobs[j].pc = "reframe_call"
        /\ Stored(jobs[j]).status = "audio_uploaded"
        /\ Stored(jobs[j]).transcript = jobs[j].transcript

\* ------------------------------------------------------------------ C7
ResultFields == {"transcript", "reframedText", "generatedAudioUrl", "error"}

RECURSIVE Replay(_, _)
\* The record after the updates among the events evs, applied in order.
Replay(session, evs) ==
    IF evs = <<>> THEN session
    ELSE Replay(IF Head(evs).ev = "update"
                THEN mergeUpdates(session, Head(evs).updates)
                ELSE session,
                Tail(evs))

\* What this step appended to the log of run j.
Appended(j) == SubSeq(jobs'[j].log, Len(jobs[j].log) + 1, Len(jobs'[j].log))

\* The session of run j just before the last update of this step.
BeforeLastUpdate(j) == Replay(sessions[jobs[j].sid], Front(Appended(j)))

\* This step completes run j: its last update is the final one to completed.
Completes(j) ==
    /\ j \in DOMAIN jobs
    /\ RunEnds(j)
    /\ jobs'[j].pc = "done"
    /\ Last(jobs'[j].log).ev = "update"
    /\ Last(jobs'[j].log).updates.status = "completed"
    /\ StoredNext(j) = mergeUpdates(BeforeLastUpdate(j), Last(jobs'[j].log).updates)

\* C7 as stated: the final update to completed leaves every field that was
\* set before it (transcript, reframedText, generatedAudioUrl, error) with the
\* value it had, whether synthesis succeeded or failed, also when the value
\* was left by an earlier run of the session.
C7_CompletedClearsNothing ==
    [][\A j \in DOMAIN jobs' :
          Completes(j) =>
              \A f \in ResultFields :
                  BeforeLastUpdate(j)[f] # NULL =>
                      StoredNext(j)[f] = BeforeLastUpdate(j)[f]]_vars

\* ------------------------------------------------------------------ C8
StageStatuses ==
    <<"transcribing", "transcribed", "reframing", "reframed",
      "generating_audio", "completed">>

\* The status values processAudioPipeline wrote in the run, in order.
StatusesWritten(job) ==
    LET w == SelectSeq(job.log,
                LAMBDA e : /\ e.ev = "update"
                           /\ e.by = "pipeline"
                           /\ "status" \in DOMAIN e.updates)
    IN  [i \in DOMAIN w |-> w[i].updates.status]

IsPrefix(s, t) == Len(s) <= Len(t) /\ \A i \in DOMAIN s : s[i] = t[i]

\* The writes of the route in a run's log: processing before the run starts,
\* and the repeat of the run's error update by the route's .catch handler.
RouteWritesAround(job) ==
    \A i \in DOMAIN job.log :
        (job.log[i].ev = "update" /\ job.log[i].by = "route") =>
            \/ i = 1 /\ job.log[i].updates = [status |-> "processing"]
            \/ /\ i = Len(job.log)
               /\ job.log[i - 1] = [job.log[i] EXCEPT !.by = "pipeline"]
               /\ job.log[i].updates.status = "error"

\* C8: the status values a run writes are a prefix of transcribing,
\* transcribed, reframing, reframed, generating_audio, completed, optionally
\* followed by error, and no value is written twice by the run (the only
\* other status writes around a run are the trigger's processing and the
\* repeat of the error update by the trigger's .catch handler).
C8_RunStatusesSequential ==
    \A j \in DOMAIN jobs :
        LET w == StatusesWritten(jobs[j]) IN
        /\ \/ IsPrefix(w, StageStatuses)
           \/ Len(w) > 0 /\ Last(w) = "error" /\ IsPrefix(Front(w), StageStatuses)
        /\ \A i, k \in DOMAIN w : i # k => w[i] # w[k]
        /\ RouteWritesAround(jobs[j])

C8_Witness ==
    \E j \in DOMAIN jobs :
        /\ StatusesWritten(jobs[j]) =
              <<"transcribing", "transcribed", "reframing", "error">>
        /\ Len(SelectSeq(jobs[j].log,
                 LAMBDA e : e.ev = "call" /\ e.adapter = "transcribeAudio")) = 1
        /\ Threw(jobs[j], "reframeText")

\* ------------------------------------------------------------------ C9
Pending(j) == j \in DOMAIN jobs /\ ~ Finished(jobs[j])

EndedInTerminalStatus(j) ==
    /\ j \in DOMAIN jobs
    /\ Finished(jobs[j])
    /\ Len(StatusesWritten(jobs[j])) > 0
    /\ Last(StatusesWritten(jobs[j])) \in {"completed", "error"}

\* C9: if every adapter request and every backoff wait of a run returns, a
\* pending run eventually ends having written completed or error as its last
\* status; and a run that has ended takes no further step (its record changes
\* only when a trigger starts a new run in its place).
C9_RunTerminates ==
    /\ \A j \in 1..MaxRuns : Pending(j) ~> EndedInTerminalStatus(j)
    /\ [][\A j \in DOMAIN jobs :
             (Finished(jobs[j]) /\ jobs'[j] # jobs[j]) =>
                 \E s \in SessionIds, u \in Users : PostProcess(s, u)]_vars

C9_Witness ==
    \E j \in DOMAIN jobs :
        /\ EndedInTerminalStatus(j)
        /\ jobs[j].pc = "failed"
        /\ Threw(jobs[j], "transcribeAudio")
        /\ ThrownMessage(jobs[j], "transcribeAudio")
              = "Transcription failed after 3 attempts: socket hang up"

\* ------------------------------------------------------------------ C10
Responses(job) == SelectSeq(job.log, LAMBDA e : e.ev = "respond")

\* The log of every run starts with the trigger: processing stored, the run
\* started, the caller answered; nothing of the run precedes the answer and
\* no second answer follows.
TriggerAnswersFirst(job) ==
    /\ Len(job.log) >= 3
    /\ job.log[1] = UpdateEv("route", [status |-> "processing"])
    /\ job.log[2] = CallEv("processAudioPipeline", job.sid)
    /\ job.log[3] = RespondEv(200, "processing")
    /\ Responses(job) = <<RespondEv(200, "processing")>>

\* C10: the trigger stores processing, starts the run and answers 200 with
\* status processing before the run has written anything or called an adapter;
\* the answer is the only one and the same for every run, and a run that
\* fails leaves its failure in the session record (status error and the
\* message) without any answer to the caller.
C10_TriggerAnswersProcessing ==
    [][\A j \in DOMAIN jobs' :
          /\ TriggerAnswersFirst(jobs'[j])
          /\ (RunEnds(j) /\ jobs'[j].pc = "failed") =>
                /\ StoredNext(j).status = "error"
                /\ StoredNext(j).error = jobs'[j].error
                /\ Last(jobs'[j].log).ev = "update"]_vars

C10_Witness ==
    \E j \in DOMAIN jobs :
        /\ jobs[j].pc = "failed"
        /\ TriggerAnswersFirst(jobs[j])
        /\ Len(jobs[j].log) > 5
        /\ Stored(jobs[j]).status = "error"
        /\ Stored(jobs[j]).error = jobs[j].error

\* ------------------------------------------------------------------ C11
\* What a trigger of session s by user u needs: the session exists, u owns
\* it, and it has an audio file.
TriggerPrecondition(s, u) ==
    /\ s \in DOMAIN sessions
    /\ sessions[s].userId = u
    /\ Len(sessions[s].audioFiles) > 0

RejectionCode(s, u) ==
    IF s \notin DOMAIN sessions THEN 404
    ELSE IF sessions[s].userId # u THEN 403
    ELSE 400

\* This step records a new run in slot j.
RunStarts(j) ==
    /\ j \in DOMAIN jobs'
    /\ j \in DOMAIN jobs => (Finished(jobs[j]) /\ jobs'[j] # jobs[j])

\* C11: a trigger whose precondition fails is answered 404 (no session),
\* 403 (session of another user) or 400 (no audio file) and is not the
\* accepted trigger: no step of it changes the session record or starts a run;
\* every run that starts was triggered with the precondition true.
C11_RejectedTriggerChangesNothing ==
    [][/\ \A s \in SessionIds, u \in Users :
             ~ TriggerPrecondition(s, u) =>
                 /\ ProcessCheck(sessions, s, u) = RejectionCode(s, u)
                 /\ ~ PostProcess(s, u)
       /\ \A j \in DOMAIN jobs' :
             RunStarts(j) =>
                 \E u \in Users :
                     /\ TriggerPrecondition(jobs'[j].sid, u)
                     /\ PostProcess(jobs'[j].sid, u)
       /\ (\A s \in SessionIds, u \in Users : ~ TriggerPrecondition(s, u)) =>
             jobs' = jobs]_vars

\* A session without audio: its owner's trigger is answered 400, another
\* user's 403, and nothing has run.
C11_Witness ==
    /\ 1 \in DOMAIN sessions
    /\ sessions[1].status = "created"
    /\ ProcessCheck(sessions, 1, Owner) = 400
    /\ ProcessCheck(sessions, 1, "u2") = 403
    /\ jobs = <<>>

\* ------------------------------------------------- retry engine: helpers
\* What the retry loop of a run did: its requests and the backoffs it started.
Engine(job) ==
    SelectSeq(job.log, LAMBDA e : e.ev \in {"answered", "failed", "wait"})

\* The requests of the run in order, each with its outcome.
Requests(job) ==
    SelectSeq(job.log, LAMBDA e : e.ev \in {"answered", "failed"})

RateLimited(e) == e.ev = "failed" /\ e.error.status = 429

\* Reset, timeout, socket and connection failures, by the code of the error.
TransientConnectionError(error) ==
    error.code \in {"ECONNRESET", "ETIMEDOUT", "ECONNABORTED", "ECONNREFUSED"}

ConnectionFailed(e) == e.ev = "failed" /\ TransientConnectionError(e.error)

\* After the failure E[i] of a run the loop waited waitTime and went on to
\* the next attempt.
WaitsAndRetries(job, E, i, waitTime) ==
    /\ i < Len(E)
    /\ E[i + 1] = WaitEv(waitTime)
    /\ IF i + 1 < Len(E)
       THEN /\ E[i + 2].ev \in {"answered", "failed"}
            /\ E[i + 2].attempt = E[i].attempt + 1
       ELSE \/ job.pc = "stt_wait" /\ job.attempt = E[i].attempt
            \/ job.pc = "stt_call" /\ job.attempt = E[i].attempt + 1

\* The failure E[i] ended the loop: nothing follows it and the run failed.
EndsTheLoop(job, E, i) ==
    /\ i = Len(E)
    /\ job.pc = "failed"
    /\ Threw(job, "transcribeAudio")

\* ------------------------------------------------------------------ C12
TenSecondsPerAttempt(k) == IF k * 10000 < 60000 THEN k * 10000 ELSE 60000

SucceedsOnThirdAfterRateLimits(job) ==
    /\ Len(Requests(job)) = 3
    /\ RateLimited(Requests(job)[1])
    /\ RateLimited(Requests(job)[2])
    /\ Requests(job)[3] = AnsweredEv(3)

\* C12: after a request that fails with HTTP 429 on attempt k < 3 the loop
\* waits min(k x 10 s, 60 s) and sends request k + 1; a run whose requests 1
\* and 2 are rate-limited and whose request 3 succeeds has made exactly two
\* waits, 10 s after the first request and 20 s after the second.
C12_RateLimitBackoff ==
    \A j \in DOMAIN jobs :
        LET E == Engine(jobs[j]) IN
        /\ \A i \in DOMAIN E :
              (RateLimited(E[i]) /\ E[i].attempt < 3) =>
                  WaitsAndRetries(jobs[j], E, i, TenSecondsPerAttempt(E[i].attempt))
        /\ SucceedsOnThirdAfterRateLimits(jobs[j]) =>
              /\ Len(E) = 5
              /\ E[2] = WaitEv(10000)
              /\ E[4] = WaitEv(20000)
              /\ E[5] = AnsweredEv(3)

C12_Witness ==
    \E j \in DOMAIN jobs :
        /\ SucceedsOnThirdAfterRateLimits(jobs[j])
        /\ Returned(jobs[j], "transcribeAudio")
        /\ Len(SelectSeq(jobs[j].log, LAMBDA e : e.ev = "wait")) = 2

\* ------------------------------------------------------------------ C13
RateLimitExceeded ==
    "Transcription failed: Rate limit exceeded. Please try again in a few minutes."

\* C13: a request that fails with HTTP 429 on attempt 3 ends the loop with
\* the rate-limit-exceeded error: no wait and no request follows it; a run
\* rate-limited on every attempt has made exactly three requests and two
\* waits, and no run makes a fourth request.
C13_RateLimitExhausts ==
    \A j \in DOMAIN jobs :
        LET E == Engine(jobs[j])
            R == Requests(jobs[j])
        IN  /\ Len(R) <= 3
            /\ jobs[j].attempt <= 3
            /\ \A i \in DOMAIN R : R[i].attempt = i
            /\ \A i \in DOMAIN E :
                  (RateLimited(E[i]) /\ E[i].attempt = 3) =>
                      /\ EndsTheLoop(jobs[j], E, i)
                      /\ ThrownMessage(jobs[j], "transcribeAudio") = RateLimitExceeded
            /\ (Len(R) = 3 /\ \A i \in DOMAIN R : RateLimited(R[i])) =>
                  /\ Len(E) = 5
                  /\ E[2] = WaitEv(10000)
                  /\ E[4] = WaitEv(20000)

C13_Witness ==
    \E j \in DOMAIN jobs :
        /\ jobs[j].pc = "failed"
        /\ Len(Requests(jobs[j])) = 3
        /\ \A i \in 1..3 : RateLimited(Requests(jobs[j])[i])
        /\ Stored(jobs[j]).error = RateLimitExceeded

\* ------------------------------------------------------------------ C14
\* C14 as stated: after a request that fails with a transient connection
\* error (reset, timeout, socket or connection failure) on attempt k < 3 the
\* loop waits k x 3 s and sends request k + 1; such a failure on attempt 3
\* ends the loop with "Transcription failed after 3 attempts: " followed by
\* the message of that last error.
C14_ConnectionErrorBackoff ==
    \A j \in DOMAIN jobs :
        LET E == Engine(jobs[j]) IN
        \A i \in DOMAIN E :
            ConnectionFailed(E[i]) =>
                IF E[i].attempt < 3
                THEN WaitsAndRetries(jobs[j], E, i, E[i].attempt * 3000)
                ELSE /\ EndsTheLoop(jobs[j], E, i)
                     /\ ThrownMessage(jobs[j], "transcribeAudio") =
                           "Transcription failed after 3 attempts: " \o E[i].error.message

\* A refused connection on the first attempt failed the run without a retry.
C14_Witness ==
    \E j \in DOMAIN jobs :
        /\ jobs[j].pc = "failed"
        /\ Engine(jobs[j]) = <<FailedEv(1, ConnectionRefused)>>
        /\ Stored(jobs[j]).error = "Transcription failed: " \o ConnectionRefused.message

\* ------------------------------------------------------------------ C15
OtherFailure(e) ==
    /\ e.ev = "failed"
    /\ e.error.status # 429
    /\ ~ TransientConnectionError(e.error)

\* C15: a request that fails with an error that is neither a rate limit nor
\* a transient connection error ends the loop at once, on any attempt: no wait
\* and no request follows it and the run fails with the error's message.
C15_OtherFailureImmediate ==
    \A j \in DOMAIN jobs :
        LET E == Engine(jobs[j]) IN
        \A i \in DOMAIN E :
            OtherFailure(E[i]) =>
                /\ EndsTheLoop(jobs[j], E, i)
                /\ ThrownMessage(jobs[j], "transcribeAudio") =
                      IF E[i].attempt = 3
                      THEN "Transcription failed after 3 attempts: " \o E[i].error.message
                      ELSE "Transcription failed: " \o E[i].error.message

C15_Witness ==
    \E j \in DOMAIN jobs :
        /\ jobs[j].pc = "failed"
        /\ Len(Requests(jobs[j])) = 2
        /\ OtherFailure(Requests(jobs[j])[2])
        /\ Last(Engine(jobs[j])) = Requests(jobs[j])[2]

\* ------------------------------------------------------------------ C16
\* C16: the first request that succeeds ends the loop: it is the last thing
\* the loop did (no request and no wait follow), its attempt number is the
\* number of requests made and is at most 3, every request before it failed,
\* and its text is what transcribeAudio returns at once.
C16_FirstSuccessReturns ==
    \A j \in DOMAIN jobs :
        LET E == Engine(jobs[j])
            R == Requests(jobs[j])
            log == jobs[j].log
        IN  \A i \in DOMAIN log :
                log[i].ev = "answered" =>
                    /\ Last(E) = log[i]
                    /\ Last(R) = log[i]
                    /\ log[i].attempt = Len(R)
                    /\ Len(R) <= 3
                    /\ \A k \in 1..(Len(R) - 1) : R[k].ev = "failed"
                    /\ i < Len(log)
                    /\ IsReturn(log[i + 1], "transcribeAudio")
                    /\ jobs[j].pc \notin {"stt_call", "stt_wait"}

C16_Witness ==
    \E j \in DOMAIN jobs :
        /\ Len(Requests(jobs[j])) = 2
        /\ Requests(jobs[j])[1].ev = "failed"
        /\ Requests(jobs[j])[2] = AnsweredEv(2)
        /\ Returned(jobs[j], "transcribeAudio")
        /\ jobs[j].pc = "reframe_call"

\* ------------------------------------------------------------------ C17
\* Every write of the error field follows a throw out of an adapter and
\* stores that throw's message (the TTS note for generateAudio).
ErrorWritesFollowThrows(log) ==
    \A i \in DOMAIN log :
        (log[i].ev = "update" /\ "error" \in DOMAIN log[i].updates) =>
            \E k \in 1..(i - 1) :
                /\ log[k].ev = "throw"
                /\ log[i].updates.error \in
                      {log[k].message, TtsUnavailable(log[k].message)}

\* The failure E[i] was absorbed: the loop went on after it.
Absorbed(E, i) == E[i].ev = "failed" /\ i < Len(E)

\* C17: a failed request the loop retries leaves the session record as it
\* is; transcribeAudio throws only for the last, unabsorbed failure; when a
\* request succeeds after absorbed failures the run stores the transcript with
\* status transcribed and no error write of the run comes from transcription:
\* every write of error stores the message of a failure thrown out of an
\* adapter.
C17_AbsorbedFailuresUnrecorded ==
    [][\A j \in DOMAIN jobs' :
          LET job == jobs'[j]
              E == Engine(job)
          IN  /\ ErrorWritesFollowThrows(job.log)
              /\ Threw(job, "transcribeAudio") =>
                    (E # <<>> => Last(E).ev = "failed")
              /\ (j \in DOMAIN jobs /\ jobs[j].pc = "stt_call"
                    /\ job.pc = "stt_wait") => sessions' = sessions
              /\ (E # <<>> /\ Last(E).ev = "answered") =>
                    /\ ~ Threw(job, "transcribeAudio")
                    /\ \E i \in DOMAIN job.log :
                          /\ IsReturn(job.log[i], "transcribeAudio")
                          /\ job.log[i + 1] = UpdateEv("pipeline",
                                [transcript |-> job.log[i].value,
                                 status |-> "transcribed"])
                    /\ (jobs'[j].pc = "reframe_call" /\ jobs[j].pc = "stt_call") =>
                          /\ StoredNext(j).error = sessions[job.sid].error
                          /\ StoredNext(j).transcript = job.transcript]_vars

C17_Witness ==
    \E j \in DOMAIN jobs :
        /\ Len(Engine(jobs[j])) = 3
        /\ ConnectionFailed(Engine(jobs[j])[1])
        /\ Engine(jobs[j])[3] = AnsweredEv(2)
        /\ jobs[j].pc = "reframe_call"
        /\ Stored(jobs[j]).transcript = jobs[j].transcript
        /\ Stored(jobs[j]).error = NULL
        /\ ~ WritesField(jobs[j], "error")

\* ------------------------------------------------------------------ C18
\* a > b for two updatedAt values, as JavaScript compares them: false when
\* one of them is undefined.
StrictlyLater(a, b) == a # Undefined /\ b # Undefined /\ a > b

\* C18 as stated: updateSession(id, {status: x}) on an existing session, then
\* getSession(id), gives status x and an updatedAt strictly greater than the
\* record had before, also for the first update after creation and for two
\* updates in immediate succession.
C18_UpdatedAtStrictlyGreater ==
    [][\A id \in DOMAIN sessions, updates \in StoreUpdates :
          (DOMAIN updates = {"status"} /\ StoreUpdate(id, updates)) =>
              /\ getSession(sessions', id).status = updates.status
              /\ StrictlyLater(getSession(sessions', id).updatedAt,
                               getSession(sessions, id).updatedAt)]_vars

\* A record that was updated in the millisecond it was created in.
C18_Witness ==
    \E id \in DOMAIN sessions :
        /\ sessions[id].status = "processing"
        /\ sessions[id].updatedAt = sessions[id].createdAt

\* ------------------------------------------------------------------ C19
\* C19: updateSession on an existing session stores and returns the record
\* with exactly the given fields replaced and updatedAt set to the time of the
\* call; every other field and every other session is unchanged; on an id that
\* does not exist it throws "Session not found" and leaves the store as it is.
C19_UpdateMergesGivenFields ==
    \A id \in StoreIds, updates \in StoreUpdates :
        LET call == updateSessionCall(sessions, id, updates) IN
        IF id \in DOMAIN sessions
        THEN /\ call.threw = NULL
             /\ call.returned = call.store[id]
             /\ DOMAIN call.store = DOMAIN sessions
             /\ \A k \in DOMAIN sessions \ {id} : call.store[k] = sessions[k]
             /\ DOMAIN call.returned = DOMAIN sessions[id] \cup {"updatedAt"}
             /\ \A f \in DOMAIN call.returned :
                   call.returned[f] =
                      IF f = "updatedAt" THEN now
                      ELSE IF f \in DOMAIN updates THEN updates[f]
                      ELSE sessions[id][f]
        ELSE /\ call.threw = "Session not found"
             /\ call.returned = NULL
             /\ call.store = sessions

\* A store where one session was updated after another was created and a
\* third id is still unused.
C19_Witness ==
    /\ \E id \in StoreIds : id \notin DOMAIN sessions
    /\ \E id \in DOMAIN sessions :
          /\ sessions[id].transcript = "hello"
          /\ sessions[id].status = "transcribing"
          /\ sessions[id].updatedAt > sessions[id].createdAt
    /\ \E id \in DOMAIN sessions : sessions[id].status = "created"

\* ------------------------------------------------------------------ C20
OwnedBy(userId) == {id \in DOMAIN sessions : sessions[id].userId = userId}

\* C20: getUserSessions(u) lists every stored session of u once, no session
\* of another user, and no session before one that was created later.
C20_UserSessionsNewestFirst ==
    \A u \in Users :
        LET list == getUserSessions(sessions, u) IN
        /\ Len(list) = Cardinality(OwnedBy(u))
        /\ {list[i] : i \in DOMAIN list} = {sessions[id] : id \in OwnedBy(u)}
        /\ \A i, k \in DOMAIN list : i < k => list[i].createdAt >= list[k].createdAt

\* Two sessions of one user, the newer under the greater id, and a session of
\* another user.
C20_Witness ==
    \E u \in Users :
        LET list == getUserSessions(sessions, u) IN
        /\ Len(list) = 2
        /\ list[1].createdAt > list[2].createdAt
        /\ list[1].id > list[2].id
        /\ Cardinality(DOMAIN sessions) = 3

\* ----------------------------------------------------------------- C21
\* C21: updateSession is a read-modify-write of the whole record that is not
\* atomic: the record a call writes is the record it read with its updates
\* merged in, so every field another writer of the same session stored between
\* the call's read and its write is back at the value that was read (the last
\* write wins, the other writer's update is lost without an error).
C21_LastWriteWins ==
    [][\A w \in 1..MaxWriters :
          (jobs[w].pc = "read" /\ jobs'[w].pc = "idle" /\ jobs[w].found)
          => /\ jobs'[w].threw = NULL
             /\ \A f \in DOMAIN sessions'[jobs[w].sid] :
                   sessions'[jobs[w].sid][f] =
                       IF f = "updatedAt" THEN now
                       ELSE IF f \in DOMAIN jobs[w].updates THEN jobs[w].updates[f]
                       ELSE jobs[w].session[f]]_vars

\* A writer stored the transcript between another writer's read and write, and
\* that other writer's write has put the transcript back to unset.
C21_Witness ==
    \E w \in 1..MaxWriters :
        /\ jobs[w].pc = "idle"
        /\ "transcript" \in jobs[w].lost
        /\ sessions[jobs[w].sid].transcript = NULL
        /\ sessions[jobs[w].sid].status = "transcribing"


\* ----------------------------------------------------------------- C22
\* A run of session s that has not ended.
ActiveRuns(s) == {j \in DOMAIN jobs : jobs[j].sid = s /\ ~ Finished(jobs[j])}

\* C22: nothing guards against a second run.  While a run of a session is in
\* progress the process route still accepts a trigger of its owner; the
\* accepted trigger stores status processing first and starts a second run,
\* which is active together with the first, whose run record it leaves alone.
C22_DuplicateRunAccepted ==
    [][\A s \in DOMAIN sessions :
          ActiveRuns(s) # {}
          => /\ ProcessCheck(sessions, s, sessions[s].userId) = 200
             /\ (Len(jobs') = Len(jobs) + 1 /\ Last(jobs').sid = s)
                => /\ Last(jobs').log[1] = UpdateEv("route", [status |-> "processing"])
                   /\ ~ Finished(Last(jobs'))
                   /\ \A j \in ActiveRuns(s) : jobs'[j] = jobs[j]
                   /\ sessions'[s].status = "transcribing"]_vars

\* Two runs of one session are active and their writes have interleaved: the
\* second run started and stored its transcript, and the first run stored its
\* own transcript over it afterwards.
C22_Witness ==
    /\ Len(jobs) = 2
    /\ jobs[1].sid = jobs[2].sid
    /\ jobs[1].pc = "reframe_call"
    /\ jobs[2].pc = "reframe_call"
    /\ jobs[1].transcript = ""
    /\ jobs[2].transcript = "hello"
    /\ sessions[jobs[1].sid].transcript = ""

\* ----------------------------------------------------------------- C23
\* Session s exists and belongs to somebody else than user u.
NotOwner(s, u) == sessionExists(sessions, s) /\ getSession(sessions, s).userId # u

\* This step is a request of user u that names session s.
RequestFor(s, u) ==
    \/ PostUpload(s, u)
    \/ PostUploadRejected(s, u)
    \/ PostProcess(s, u)
    \/ PostProcessRejected(s, u)
    \/ GetSessionRoute(s, u)

C24_AudioFilesAppendOnly ==
    [][\A s \in DOMAIN sessions :
          /\ s \in DOMAIN sessions'
          /\ IsPrefix(sessions[s].audioFiles, sessions'[s].audioFiles)
          /\ Len(sessions'[s].audioFiles) <= Len(sessions[s].audioFiles) + 1
          /\ \A u \in Users :
                PostUpload(s, u)
                => /\ Len(sessions'[s].audioFiles) = Len(sessions[s].audioFiles) + 1
                   /\ Last(sessions'[s].audioFiles).filename
                          = UploadFilename(Len(sessions[s].audioFiles))
          /\ (\A u \in Users : ~ PostUpload(s, u))
                => sessions'[s].audioFiles = sessions[s].audioFiles]_vars

\* A second file was uploaded after a run of the session had stored its
\* results, and a later run has started: both descriptors are there, in
\* upload order.
C24_Witness ==
    \E s \in DOMAIN sessions :
        /\ Len(sessions[s].audioFiles) = 2
        /\ sessions[s].audioFiles[1].filename = UploadFilename(0)
        /\ sessions[s].audioFiles[2].filename = UploadFilename(1)
        /\ sessions[s].transcript # NULL
        /\ \E j \in DOMAIN jobs : jobs[j].audioPath = sessions[s].audioFiles[2].path

\* ----------------------------------------------------------------- C25
\* The paths run j has passed to transcribeAudio.
TranscribedPaths(job) ==
    {job.log[i].arg : i \in Events(job, "call", "transcribeAudio")}

\* C25: a run transcribes the most recently appended file.  The path a
\* starting run passes to transcribeAudio is the path of the last entry of
\* audioFiles as stored when the run starts, and the run never passes another
\* path afterwards, whatever is uploaded while it is pending.
C25_TranscribesLatestFile ==
    [][\A j \in DOMAIN jobs' :
          /\ RunStarts(j) 
             => TranscribedPaths(jobs'[j]) \subseteq
                    {Last(sessions'[jobs'[j].sid].audioFiles).path}
          /\ (j \in DOMAIN jobs /\ ~ RunStarts(j))
             => TranscribedPaths(jobs'[j]) = TranscribedPaths(jobs[j])]_vars

\* A run that started when the session had two files and was given the
\* second one.
C25_Witness ==
    \E j \in DOMAIN jobs :
        /\ Len(sessions[jobs[j].sid].audioFiles) = 2
        /\ TranscribedPaths(jobs[j]) = {sessions[jobs[j].sid].audioFiles[2].path}
        /\ sessions[jobs[j].sid].audioFiles[1].path
               # sessions[jobs[j].sid].audioFiles[2].path

\* ----------------------------------------------------------------- C26
\* C26 as stated: transcript and reframedText are set once.  Once either holds
\* a value, no step (upload, failure, step of a later run) changes it or
\* resets it to unset.
C26_ResultsSetOnce ==
    [][\A s \in DOMAIN sessions :
          /\ sessions[s].transcript # NULL
             => sessions'[s].transcript = sessions[s].transcript
          /\ sessions[s].reframedText # NULL
             => sessions'[s].reframedText = sessions[s].reframedText]_vars

\* What does hold: neither field is ever reset to unset.
C26_NeverCleared ==
    [][\A s \in DOMAIN sessions :
          /\ sessions[s].transcript # NULL => sessions'[s].transcript # NULL
          /\ sessions[s].reframedText # NULL => sessions'[s].reframedText # NULL]_vars

\* ----------------------------------------------------------------- C27
\* C27: error is written by every failure and reset by nothing.  A run that
\* ends in a failure leaves its message in error, a run whose synthesis failed
\* leaves the TTS note, and once error holds a message every later step, the
\* successful stages and runs included, leaves a message there.
C27_ErrorNeverCleared ==
    [][/\ \A s \in DOMAIN sessions :
             sessions[s].error # NULL => sessions'[s].error # NULL
       /\ \A j \in DOMAIN jobs' :
             RunEnds(j)
             => /\ jobs'[j].pc = "failed" => StoredNext(j).error = jobs'[j].error
                /\ (jobs'[j].pc = "done" /\ Threw(jobs'[j], "generateAudio"))
                   => StoredNext(j).error
                          = TtsUnavailable(ThrownMessage(jobs'[j], "generateAudio"))
                /\ (jobs'[j].pc = "done" /\ ~ Threw(jobs'[j], "generateAudio"))
                   => StoredNext(j).error = Stored(jobs'[j]).error]_vars

\* A session completed by a run in which every stage succeeded, with the
\* error an earlier failed run left.
C27_Witness ==
    \E j \in DOMAIN jobs :
        /\ jobs[j].pc = "done"
        /\ Returned(jobs[j], "generateAudio")
        /\ ~ WritesField(jobs[j], "error")
        /\ Stored(jobs[j]).status = "completed"
        /\ Stored(jobs[j]).generatedAudioUrl # NULL
        /\ Stored(jobs[j]).error # NULL

\* ----------------------------------------------------------------- C28
ReturnedValue(job, adapter) ==
    job.log[CHOOSE i \in Events(job, "return", adapter) : TRUE].value

\* Run j ends in this step as the run of the scenario: no second run was
\* ever pending beside it (the trigger of the scenario is the only one
\* outstanding), the session has one uploaded file, the transcriber returned
\* "hello", the reframer "HELLO" and the synthesizer the artifact
\* ReturnedValue(jobs'[j], "generateAudio").
ScenarioRunEnds(j) ==
    /\ RunEnds(j)
    /\ Len(jobs') = 1
    /\ Len(StoredNext(j).audioFiles) = 1
    /\ Returned(jobs'[j], "transcribeAudio")
    /\ ReturnedValue(jobs'[j], "transcribeAudio") = "hello"
    /\ Returned(jobs'[j], "reframeText")
    /\ ReturnedValue(jobs'[j], "reframeText") = "HELLO"
    /\ Returned(jobs'[j], "generateAudio")

\* What GET /sessions/:id answers the owner after the step.
FinalGet(j) == GetSessionResponse(sessions', jobs'[j].sid, StoredNext(j).userId)

\* C28 as stated: after the scenario the final get has status completed,
\* transcript "hello", reframedText "HELLO" and, as generatedAudioUrl, the
\* artifact reference the synthesizer returned.
C28_ScenarioAsStated ==
    [][\A j \in DOMAIN jobs' :
          ScenarioRunEnds(j)
          => /\ FinalGet(j).code = 200
             /\ FinalGet(j).body.status = "completed"
             /\ FinalGet(j).body.transcript = "hello"
             /\ FinalGet(j).body.reframedText = "HELLO"
             /\ FinalGet(j).body.generatedAudioUrl
                    = ReturnedValue(jobs'[j], "generateAudio")]_vars

\* C28, amended: the same, with generatedAudioUrl the URL made of the
\* artifact's name, "/uploads/" followed by what the synthesizer returned.
C28_ScenarioCompletes ==
    [][\A j \in DOMAIN jobs' :
          ScenarioRunEnds(j)
          => /\ FinalGet(j).code = 200
             /\ FinalGet(j).body.status = "completed"
             /\ FinalGet(j).body.transcript = "hello"
             /\ FinalGet(j).body.reframedText = "HELLO"
             /\ FinalGet(j).body.generatedAudioUrl
                    = "/uploads/" \o ReturnedValue(jobs'[j], "generateAudio")]_vars

\* The scenario has run: one file, the three answers, and the record the
\* owner gets.
C28_Witness ==
    \E j \in DOMAIN jobs :
        /\ Len(jobs) = 1
        /\ jobs[j].pc = "done"
        /\ Len(Stored(jobs[j]).audioFiles) = 1
        /\ Returned(jobs[j], "transcribeAudio")
        /\ ReturnedValue(jobs[j], "transcribeAudio") = "hello"
        /\ Returned(jobs[j], "reframeText")
        /\ ReturnedValue(jobs[j], "reframeText") = "HELLO"
        /\ Returned(jobs[j], "generateAudio")
        /\ GetSessionResponse(sessions, jobs[j].sid, Owner).body.status = "completed"
        /\ GetSessionResponse(sessions, jobs[j].sid, Owner).body.transcript = "hello"
        /\ GetSessionResponse(sessions, jobs[j].sid, Owner).body.reframedText = "HELLO"
        /\ GetSessionResponse(sessions, jobs[j].sid, Owner).body.generatedAudioUrl
               = "/uploads/" \o AudioFilename(jobs[j].sid)
        /\ GetSessionResponse(sessions, jobs[j].sid, Owner).body.error = NULL

\* ----------------------------------------------------------------- C29
\* C29: id and userId never change and no session is removed.  Every step
\* (upload, trigger, step of a run, failure) keeps every stored session, with
\* the id and the userId it had.
C29_IdentityImmutable ==
    [][\A s \in DOMAIN sessions :
          /\ s \in DOMAIN sessions'
          /\ sessions'[s].id = sessions[s].id
          /\ sessions'[s].userId = sessions[s].userId]_vars

\* A session that went through two uploads, a failure and a completed run and
\* is still the owner's session under its id.
C29_Witness ==
    \E s \in DOMAIN sessions :
        /\ Len(sessions[s].audioFiles) = 2
        /\ sessions[s].error # NULL
        /\ sessions[s].status = "completed"
        /\ sessions[s].id = s
        /\ sessions[s].userId = Owner

\* ----------------------------------------------------------------- C30
\* The runs that start or go on in this step.
RunsStepping == {j \in DOMAIN jobs' : j \notin DOMAIN jobs \/ jobs'[j] # jobs[j]}

\* C30: runs of different sessions are independent.  A step of a run (its
\* trigger included) changes no record but the one of the run's session, and
\* any step changes the record of at most one session, in every interleaving
\* of the runs and requests of the sessions.
C30_OtherSessionsUnchanged ==
    [][/\ \A j \in RunsStepping :
             \A b \in DOMAIN sessions :
                 b # jobs'[j].sid => sessions'[b] = sessions[b]
       /\ Cardinality({b \in DOMAIN sessions : sessions'[b] # sessions[b]}) <= 1]_vars

\* Runs of two sessions have interleaved: the second run started after the
\* first and has completed its session while the first is still reframing,
\* and each record holds what its own run wrote.
C30_Witness ==
    /\ Len(jobs) = 2
    /\ jobs[1].sid # jobs[2].sid
    /\ jobs[1].pc = "reframe_call"
    /\ jobs[2].pc = "done"
    /\ sessions[jobs[1].sid].status = "reframing"
    /\ sessions[jobs[1].sid].transcript = "hello"
    /\ sessions[jobs[1].sid].reframedText = NULL
    /\ sessions[jobs[2].sid].status = "completed"
    /\ sessions[jobs[2].sid].transcript = ""
    /\ sessions[jobs[2].sid].reframedText = "HELLO"

\* ----------------------------------------------------------------- C31
\* C31: in one run the reframer is called at most once and the synthesizer at
\* most once.  A failure of the reframer ends the run (failed), a failure of
\* the synthesizer ends it too (completed without audio): neither is called
\* again.  Only the transcription request is sent more than once.
C31_ReframerAndSynthesizerOnce ==
    \A j \in DOMAIN jobs :
        /\ Cardinality(Events(jobs[j], "call", "reframeText")) <= 1
        /\ Cardinality(Events(jobs[j], "call", "generateAudio")) <= 1
        /\ Threw(jobs[j], "reframeText") => jobs[j].pc = "failed"
        /\ Threw(jobs[j], "generateAudio") => jobs[j].pc = "done"
        /\ Len(Requests(jobs[j])) > 1
           => \A i \in 1..(Len(Requests(jobs[j])) - 1) : Requests(jobs[j])[i].ev = "failed"

\* A run whose transcription request was sent three times and whose single
\* reframing call failed: the run has ended.
C31_Witness ==
    \E j \in DOMAIN jobs :
        /\ Len(Requests(jobs[j])) = 3
        /\ Cardinality(Events(jobs[j], "call", "reframeText")) = 1
        /\ Threw(jobs[j], "reframeText")
        /\ jobs[j].pc = "failed"

\* ----------------------------------------------------------------- C32
\* Run j calls generateAudio in this step.
CallsSynthesizer(j) ==
    /\ Called(jobs'[j], "generateAudio")
    /\ j \in DOMAIN jobs => ~ Called(jobs[j], "generateAudio")

\* The user has a readable record with a cloned voice.
Enrolled(u) == u \in DOMAIN userVoice /\ userVoice[u] \in ClonedVoices

\* C32: with the synthesis service configured, generateAudio speaks with the
\* voice of the session's owner if the owner has cloned one, else (no clone,
\* or the owner's record cannot be read) with the default voice, and fails
\* only if there is neither; that failure is not critical (the run completes).
\* A stored voice is replaced only by a later clone of the same user, so
\* every run that synthesizes after a clone uses the owner's latest clone.
C32_VoiceSelection ==
    [][/\ \A j \in DOMAIN jobs' :
             (CallsSynthesizer(j) /\ env.ELEVENLABS_API_KEY)
             => LET owner == StoredNext(j).userId IN
                /\ Enrolled(owner)
                   => jobs'[j].pc = "tts_call" /\ jobs'[j].voice = userVoice[owner]
                /\ (~ Enrolled(owner) /\ env.ELEVENLABS_VOICE_ID)
                   => jobs'[j].pc = "tts_call" /\ jobs'[j].voice = "default-voice"
                /\ (~ Enrolled(owner) /\ ~ env.ELEVENLABS_VOICE_ID)
                   => /\ Threw(jobs'[j], "generateAudio")
                      /\ jobs'[j].pc = "done"
                      /\ StoredNext(j).status = "completed"
       /\ \A u \in DOMAIN userVoice :
             /\ u \in DOMAIN userVoice'
             /\ userVoice'[u] # userVoice[u]
                => \E v \in ClonedVoices : PostVoiceClone(u, v)]_vars

\* The owner cloned a voice after a run of the session had used the default
\* voice, and the following run is synthesizing with the clone.
C32_Witness ==
    \E j \in DOMAIN jobs :
        /\ jobs[j].pc = "tts_call"
        /\ jobs[j].voice = "voice-2"
        /\ userVoice[Owner] = "voice-2"
        /\ userVoice["u2"] = "voice-1"
        /\ env.ELEVENLABS_VOICE_ID
        /\ Stored(jobs[j]).generatedAudioUrl # NULL

\* ------------------------------------------------------------------ C33
\* The accounts (lowercased emails), and whether an account is locked now.
Accounts == {toLowerCase(email) : email \in Emails}

Locked(e) ==
    /\ e \in DOMAIN lockouts
    /\ lockouts[e].lockedUntil # NoDate
    /\ lockouts[e].lockedUntil > now

\* Request r gets its answer in this step.
AnsweredNow(r) ==
    /\ requests'[r].pc = "done"
    /\ r \in DOMAIN requests => requests[r] # requests'[r]

LoginAnsweredNow(r, e) ==
    /\ AnsweredNow(r)
    /\ requests'[r].op = "login"
    /\ toLowerCase(requests'[r].email) = e

\* C33: once five failed logins have locked an account, every login for it is
\* answered 423, the one with the correct password too, until the lock time
\* has passed: while the account is locked no login gets another answer, and
\* the lock is neither lifted nor shortened before its time.
C33_LockedForFifteenMinutes ==
    [][\A e \in Accounts :
          Locked(e)
          => /\ \A r \in DOMAIN requests' :
                   LoginAnsweredNow(r, e) => requests'[r].response.code = 423
             /\ now' < lockouts[e].lockedUntil
                => /\ e \in DOMAIN lockouts'
                   /\ lockouts'[e].lockedUntil >= lockouts[e].lockedUntil]_vars

\* A wrong password has just locked an account (answer 423), a login with the
\* correct password for the same account has been answered 200 after it at
\* the same time, and the lockout record is gone.
C33_Witness ==
    /\ now = 0
    /\ Len(requests) = 2
    /\ requests[1].pc = "done" /\ requests[2].pc = "done"
    /\ requests[1].op = "login" /\ requests[2].op = "login"
    /\ requests[1].email = requests[2].email
    /\ requests[1].response.code = 200
    /\ requests[2].response = LockedNow(LOCKOUT_DURATION)
    /\ toLowerCase(requests[1].email) \notin DOMAIN lockouts

\* ------------------------------------------------------------------ C34
\* C34: a session whose status is transcribed, reframing, reframed,
\* generating_audio or completed has its transcript set, and one whose status
\* is reframed, generating_audio or completed has its reframedText set, also
\* when uploads and further triggers come between the steps of a run.
C34_StatusImpliesResults ==
    \A s \in DOMAIN sessions :
        /\ sessions[s].status \in {"transcribed", "reframing", "reframed",
                                   "generating_audio", "completed"}
           => sessions[s].transcript # NULL
        /\ sessions[s].status \in {"reframed", "generating_audio", "completed"}
           => sessions[s].reframedText # NULL

\* A run of a session that already has results from an earlier run and got a
\* second file during this run has stored its own transcript and is reframing.
C34_Witness ==
    \E j \in DOMAIN jobs :
        /\ jobs[j].pc = "reframe_call"
        /\ Stored(jobs[j]).status = "reframing"
        /\ Stored(jobs[j]).reframedText # NULL
        /\ Len(Stored(jobs[j]).audioFiles) = 2
        /\ jobs[j].audioPath = Stored(jobs[j]).audioFiles[1].path

\* ------------------------------------------------------------------ C35
\* The failed attempts on record for an account (none without a record).
FailedAttempts(store, e) == IF e \in DOMAIN store THEN store[e].failedAttempts ELSE 0

\* Login r is answered in this step after its password was found wrong.
WrongPasswordNow(r, e) ==
    /\ LoginAnsweredNow(r, e)
    /\ r \in DOMAIN requests
    /\ requests[r].pc = "compare"
    /\ requests'[r].response.code # 200

\* C35: a successful login clears the failed-attempt record of its account,
\* so the count restarts from zero: a wrong password that follows is recorded
\* as the first failure and answered 401 with 4 remaining attempts, every
\* failure adds one to the count, and the account is locked only by a failure
\* that brings the count to five.
C35_SuccessRestartsCount ==
    [][\A e \in Accounts :
          /\ \A r \in DOMAIN requests' :
                /\ (LoginAnsweredNow(r, e) /\ requests'[r].response.code = 200)
                   => e \notin DOMAIN lockouts'
                /\ (WrongPasswordNow(r, e) /\ e \notin DOMAIN lockouts)
                   => /\ requests'[r].response = WrongPassword(4)
                      /\ lockouts'[e].failedAttempts = 1
                      /\ lockouts'[e].lockedUntil = NoDate
                /\ WrongPasswordNow(r, e)
                   => lockouts'[e].failedAttempts = FailedAttempts(lockouts, e) + 1
          /\ (e \in DOMAIN lockouts' /\ lockouts'[e].lockedUntil # NoDate
              /\ ~ (e \in DOMAIN lockouts /\ lockouts[e].lockedUntil # NoDate))
             => /\ lockouts'[e].failedAttempts = MAX_FAILED_ATTEMPTS
                /\ FailedAttempts(lockouts, e) = MAX_FAILED_ATTEMPTS - 1]_vars

\* Four wrong passwords were on record for an account (the last one answered
\* with 1 remaining attempt), a login with the correct password has been
\* answered 200, and the record of the account is gone.
C35_Witness ==
    /\ now = 0
    /\ Len(requests) = 2
    /\ requests[1].pc = "done" /\ requests[2].pc = "done"
    /\ requests[1].op = "login" /\ requests[2].op = "login"
    /\ requests[1].email = requests[2].email
    /\ requests[1].response.code = 200
    /\ requests[2].response = WrongPassword(1)
    /\ toLowerCase(requests[1].email) \notin DOMAIN lockouts

\* ------------------------------------------------------------------ C36
\* Request r arrives in this step (it is answered at once or suspends).
StartedNow(r) ==
    /\ r \in DOMAIN requests => requests[r].pc = "done" /\ requests[r] # requests'[r]
    /\ r \in DOMAIN requests'

LoginStartedNow(r, e) ==
    /\ StartedNow(r)
    /\ requests'[r].op = "login"
    /\ toLowerCase(requests'[r].email) = e

\* The lock of account e has expired.
Expired(e) ==
    /\ e \in DOMAIN lockouts
    /\ lockouts[e].lockedUntil # NoDate
    /\ lockouts[e].lockedUntil <= now

\* C36: while an account is locked a login attempt changes nothing in its
\* lockout record (failedAttempts does not grow, lockedUntil is not moved),
\* the record stays as the locking failure wrote it until the lock time has
\* passed, and the first check after expiry deletes the record.
C36_LockedRecordFrozen ==
    [][\A e \in Accounts :
          /\ Locked(e)
             => /\ \A r \in DOMAIN requests' :
                      LoginAnsweredNow(r, e)
                      => e \in DOMAIN lockouts' /\ lockouts'[e] = lockouts[e]
                /\ now' < lockouts[e].lockedUntil
                   => e \in DOMAIN lockouts' /\ lockouts'[e] = lockouts[e]
          /\ Expired(e)
             => \A r \in DOMAIN requests' :
                   LoginStartedNow(r, e)
                   => \/ e \notin DOMAIN lockouts'
                      \/ lockouts'[e].lockedUntil = NoDate]_vars

\* C36, for the logins that arrive while the account is locked: such a login
\* is answered 423 at once and leaves every lockout record as it was; and a
\* login that arrives after the lock expired does not find the old record.
C36_ArrivingWhileLocked ==
    [][\A e \in Accounts :
          /\ Locked(e)
             => \A r \in DOMAIN requests' :
                   LoginStartedNow(r, e)
                   => /\ requests'[r].pc = "done"
                      /\ requests'[r].response.code = 423
                      /\ requests'[r].response.lockedUntil = lockouts[e].lockedUntil
                      /\ lockouts' = lockouts
          /\ Expired(e)
             => \A r \in DOMAIN requests' :
                   LoginStartedNow(r, e)
                   => \/ e \notin DOMAIN lockouts'
                      \/ lockouts'[e].lockedUntil = NoDate]_vars

\* Two logins with a wrong password passed the lockout check when four
\* failures were on record: the first locked the account, the second was
\* recorded as the sixth failure of the locked account.
C36_Witness ==
    \E e \in Accounts :
        /\ Locked(e)
        /\ lockouts[e].failedAttempts = MAX_FAILED_ATTEMPTS + 1
        /\ Len(requests) = 2
        /\ requests[1].response = LockedNow(lockouts[e].lockedUntil)
        /\ requests[2].response = LockedNow(lockouts[e].lockedUntil)

\* ------------------------------------------------------------------ C37
\* Login r is answered in this step as a failed login: not 200, and not the
\* 423 of a login that arrives while the account is locked.
FailedLoginNow(r, e) ==
    /\ LoginAnsweredNow(r, e)
    /\ requests'[r].response.code # 200
    /\ StartedNow(r) => ~ Locked(e)

\* C37: the login does not tell whether an email is registered: a failed
\* login is recorded towards the lockout and answered with the status code
\* and body of a wrong password with the same record (401 with the remaining
\* attempts, 423 when the failure locks the account), whether the email is
\* registered or not.
C37_NoUserEnumeration ==
    [][\A e \in Accounts : \A r \in DOMAIN requests' :
          FailedLoginNow(r, e)
          => /\ e \in DOMAIN lockouts'
             /\ lockouts'[e].failedAttempts >= 1
             /\ lockouts'[e].lastAttempt = now
             /\ requests'[r].response = WrongPasswordAnswer(lockouts'[e])]_vars

\* After the same history (four failures each) a wrong password for a
\* registered email and a login for an unregistered email have been answered:
\* both accounts are locked by the failure, one answer is 423 and the other 401.
C37_Witness ==
    /\ Len(requests) = 2
    /\ requests[1].pc = "done" /\ requests[2].pc = "done"
    /\ requests[1].op = "login" /\ requests[2].op = "login"
    /\ toLowerCase(requests[1].email) \in DOMAIN emailIndex
    /\ toLowerCase(requests[2].email) \notin DOMAIN emailIndex
    /\ Locked(toLowerCase(requests[1].email))
    /\ Locked(toLowerCase(requests[2].email))
    /\ lockouts[toLowerCase(requests[1].email)].failedAttempts = MAX_FAILED_ATTEMPTS
    /\ lockouts[toLowerCase(requests[2].email)].failedAttempts = MAX_FAILED_ATTEMPTS
    /\ requests[1].response = LockedNow(LOCKOUT_DURATION)
    /\ requests[2].response = InvalidLogin

\* ------------------------------------------------------------------ C38
\* C38: at most one user exists per email address, compared without regard
\* to case, also when two signups for the same email are pending in
\* bcrypt.hash at the same time.
C38_OneUserPerEmail ==
    \A u1 \in DOMAIN users, u2 \in DOMAIN users :
        toLowerCase(users[u1].email) = toLowerCase(users[u2].email) => u1 = u2

\* Two signups for the same address, written in different case, were both
\* answered 201, each with a user of its own.
C38_Witness ==
    /\ Len(requests) = 2
    /\ requests[1].op = "signup" /\ requests[2].op = "signup"
    /\ requests[1].email = "a@x.io" /\ requests[2].email = "A@x.io"
    /\ requests[1].response.code = 201 /\ requests[2].response.code = 201
    /\ requests[1].response.user # requests[2].response.user
    /\ users[requests[1].response.user].email = users[requests[2].response.user].email

\* ------------------------------------------------------------------ C39
\* C39: every created user stays findable by email when signups for
\* different emails are pending at the same time: the email index maps the
\* email of each user (the only user of that email) to the id of that user,
\* so getUserByEmail returns the user.
C39_CreatedUsersIndexed ==
    \A u \in DOMAIN users :
        (\A v \in DOMAIN users : users[v].email = users[u].email => v = u)
        => /\ users[u].email \in DOMAIN emailIndex
           /\ emailIndex[users[u].email] = u
           /\ getUserByEmail(emailIndex, users, users[u].email)
                  = [found |-> TRUE, user |-> users[u]]

\* Two signups for different emails were both answered 201, and the index
\* has the email of the second only: a login for the first is answered as for
\* an unknown email.
C39_Witness ==
    /\ Len(requests) = 2
    /\ requests[1].op = "signup" /\ requests[2].op = "signup"
    /\ requests[1].email = "a@x.io" /\ requests[2].email = "b@x.io"
    /\ requests[1].response.code = 201 /\ requests[2].response.code = 201
    /\ DOMAIN emailIndex = {"b@x.io"}
    /\ ~ getUserByEmail(emailIndex, users, "a@x.io").found
    /\ \E u \in DOMAIN users : users[u].email = "a@x.io"

====
